---- MODULE Spec2Model ----
(***************************************************************************)
(* The token-gated OverwatchClient of owbot/overwatch/overwatch.go (the    *)
(* revision whose GetStats takes a context and a request token from        *)
(* nextCh): the stats cache, the request token and the goroutines that     *)
(* call GetStats concurrently.                                             *)
(***************************************************************************)
EXTENDS Integers, Sequences, FiniteSets, TLC

\* ------------------------------------------------------------------ bounds

\* Size of the stats cache; the source's cacheSizeStats is 200, scaled down
\* so that a run can store more distinct keys than the cache holds.
cacheSizeStats == 1

\* Staleness limit in ticks of the model clock; the source's
\* cacheDurationStats is 5 * time.Minute.
cacheDurationStats == 1

\* Last value of the model clock.
MaxTime == 2

\* Number of upstream HTTP calls a run may issue.
MaxHttp == 3

\* Number of times one call of RestClient.Do may send its request.
MaxSends == 2

\* Number of connections dialled in a run.
MaxConns == 2

\* Number of sendPayload goroutines with a heartbeat that have not run yet.
MaxBeats == 1

\* Number of READY payloads the server sends in a run.
MaxReady == 2

\* Last sequence number of the dispatches the server sends in a run.
MaxSeq == 2

\* Number of message handlers a run registers.
MaxHandlers == 2

\* Number of times in a row Dial fails in a reconnect.
MaxFails == 11

\* ------------------------------------------------------- program constants

\* make(chan bool, 1): the buffer size of nextCh.
nextChCap == 1

\* --------------------------------------------------------------- universes

\* The goroutines that call GetStats (one per chat command).
Procs == {"g1", "g2", "g3"}

\* The goroutines that issue commands in the unrestricted specification.
Callers == {"g1", "g2"}

\* Battle tags as sequences of characters: raw and url-friendly spellings of
\* one account, another account, and a tag url.Parse rejects.
Tags ==
    { <<"a", "#", "1">>, <<"a", "-", "1">>, <<"b", "#", "2">>, <<"%">> }

Nil == "nil"
NoEntry == [absent |-> TRUE]
NoReq == [none |-> TRUE]
NoRet == [pending |-> TRUE]
NoStats == [nil |-> TRUE]
NoResp == [none |-> TRUE]
NoErr == [kind |-> "nil"]

\* The tag left as it is.
ReplaceNothing(s) == s

\* strings.Replace(battleTag, "#", "-", -1)
Replace(s) == [i \in 1..Len(s) |-> IF s[i] = "#" THEN "-" ELSE s[i]]

Keys == {Replace(t) : t \in Tags}

VARIABLES
    now,        \* the clock read by time.Now and time.Since
    nextCh,     \* number of tokens buffered in ow.nextCh
    cache,      \* ow.userStatsCache: key -> userStatsCacheEntry or NoEntry
    pc,         \* where each goroutine stands in GetStats
    battleTag,  \* GetStats' local battleTag, after the replace
    ctx,        \* "live", or the place the goroutine stood at when ctx was cancelled
    deferred,   \* whether the deferred token release is registered
    req,        \* the *http.Request built by NewRequest, with its Cancel channel
    ret,        \* what GetStats returned: (*UserStats, error)
    trace,      \* history: how far the call got, see GetStats and below
    httpCalls,  \* history: number of calls of client.Do so far
    lastStore,  \* history: key -> time of the last userStatsCache.Add, or -1
    clock,      \* the clock of time.Sleep, in milliseconds
    mu,         \* rc.mu (ow.sendMu in the mutex-gated overwatch client):
                \* "free", or the goroutine that holds it
    rpc,        \* where each goroutine stands in RestClient.Do
    rctx,       \* "live", or the place the goroutine stood at when ctx was cancelled
    rcall,      \* what the call's reqFunc builds, and whether Do decodes to v
    rresp,      \* Do's local resp: the last response of client.Do
    retryAfter, \* Do's local retryAfter, a time.Duration
    rret,       \* what Do returned: (*http.Response, error)
    sends,      \* history: number of calls of client.Do by this call of Do
    gotAt,      \* history: the clock when the last time.Sleep was called
    probe,      \* history: a response and what was made of it
    cmd,        \* showProfile of each goroutine: where it stands, its local
                \* battleTag, and the messages it sent to the channel
    userSource, \* the UserSource: its implementation, what it holds, and the
                \* last Get; history: the user last saved under each id
    sc          \* the WebSocketClient: its fields, its channels and sockets,
                \* and where each of its goroutines stands

\* The variables of the OverwatchClient and its callers.
owVars ==
    << now, nextCh, cache, pc, battleTag, ctx, deferred, req, ret, trace,
       httpCalls, lastStore >>

\* The variables of the RestClient and its callers.
restVars ==
    << clock, mu, rpc, rctx, rcall, rresp, retryAfter, rret, sends, gotAt,
       probe >>

\* The variables of the command layer.
botVars == << cmd >>

\* The variables of the user source.
userVars == << userSource >>

vars == << owVars, restVars, botVars, userVars, sc >>

\* What a step of GetStats leaves alone, and what a step of RestClient.Do
\* leaves alone.
outsideOverwatch == << restVars, botVars, userVars, sc >>
outsideRest == << owVars, botVars, userVars, sc >>
outsideBot == << owVars, restVars, userVars, sc >>
outsideUsers == << owVars, restVars, botVars, sc >>
outsideWs == << owVars, restVars, botVars, userVars >>

\* ------------------------------------------------------------ the cache

HexDigits ==
    { "0", "1", "2", "3", "4", "5", "6", "7", "8", "9",
      "a", "b", "c", "d", "e", "f", "A", "B", "C", "D", "E", "F" }

\* fmt.Sprintf("u/%s/stats/competitive", battleTag)
Path(tag) ==
    <<"u", "/">> \o tag \o
    <<"/", "s", "t", "a", "t", "s", "/", "c", "o", "m", "p", "e",
      "t", "i", "t", "i", "v", "e">>

\* url.Parse fails on a '%' that is not followed by two hex digits.
UrlParseError(urlStr) ==
    \E i \in 1..Len(urlStr) :
        /\ urlStr[i] = "%"
        /\ ~ ( /\ i + 2 <= Len(urlStr)
               /\ urlStr[i + 1] \in HexDigits
               /\ urlStr[i + 2] \in HexDigits )

\* NewRequest: the request, or the error of url.Parse.
NewRequest(urlStr) ==
    IF UrlParseError(urlStr)
    THEN [req |-> NoReq, err |-> "url"]
    ELSE [req |-> [url |-> urlStr, Cancel |-> FALSE], err |-> Nil]

\* The request is sent without the caller's cancel channel.
AttachCancelOmitted(r) == r

\* req.Cancel = ctx.Done()
AttachCancel(r) == [r EXCEPT !.Cancel = TRUE]

\* The staleness test with < in place of <=.
FreshStrict(e) == now - e.addedAt < cacheDurationStats

\* time.Since(addedAt) <= cacheDurationStats
Fresh(e) == now - e.addedAt <= cacheDurationStats

\* A lookup that returns every entry that is present, whatever its age.
getUserStatsOfAnyAge(tag) ==
    LET cacheEntry == cache[tag] IN
    IF cacheEntry # NoEntry
    THEN [stats |-> cacheEntry.stats, ok |-> TRUE]
    ELSE [stats |-> NoStats, ok |-> FALSE]

\* getUserStatsFromCache: the entry's stats when present and not stale.
getUserStatsFromCache(tag) ==
    LET cacheEntry == cache[tag] IN
    IF cacheEntry # NoEntry /\ Fresh(cacheEntry)
    THEN [stats |-> cacheEntry.stats, ok |-> TRUE]
    ELSE [stats |-> NoStats, ok |-> FALSE]

Present(c) == {k \in Keys : c[k] # NoEntry}

\* userStatsCache.Add on a cache of cacheSizeStats entries: a new key added to
\* a full cache evicts an entry (which one is the replacement policy's choice).
CacheAdd(c, k, e) ==
    IF c[k] # NoEntry \/ Cardinality(Present(c)) < cacheSizeStats
    THEN {[c EXCEPT ![k] = e]}
    ELSE {[c EXCEPT ![k] = e, ![v] = NoEntry] : v \in Present(c)}

\* ------------------------------------------------------------ the upstream

Statuses == {199, 200, 299, 300, 404}

\* What the upstream does with a request: a network failure, or a response
\* with a status and a body that decodes, decodes with a field of the wrong
\* type, or is not JSON.
Upstream ==
    {[net |-> "fail", status |-> 0, body |-> "none"]} \cup
    {[net |-> "ok", status |-> s, body |-> b] :
        s \in Statuses, b \in {"json", "typeerr", "garbage"}}

\* The upstream answers successfully: a 2xx response whose body is JSON.
UpstreamOK ==
    {up \in Upstream :
        up.net = "ok" /\ up.status \in 200..299 /\ up.body # "garbage"}

\* CheckResponse: nil for a status within 200..299, an ErrorResponse otherwise.
CheckResponse(status) ==
    IF status >= 200 /\ status <= 299 THEN Nil ELSE "status"

\* client.Do(req): a request whose Cancel channel is closed is aborted.
clientDo(p, up) ==
    IF req[p].Cancel /\ ctx[p] # "live" THEN "canceled"
    ELSE IF up.net = "fail" THEN "transport"
    ELSE Nil

\* Do returning every error of Decode.
DoStrictDecode(p, up) ==
    LET err == clientDo(p, up) IN
    IF err # Nil THEN [err |-> err, partial |-> FALSE]
    ELSE IF CheckResponse(up.status) # Nil
    THEN [err |-> CheckResponse(up.status), partial |-> FALSE]
    ELSE IF up.body # "json" THEN [err |-> "decode", partial |-> FALSE]
    ELSE [err |-> Nil, partial |-> FALSE]

\* OverwatchClient.Do: the error it returns, and whether v was filled in part.
Do(p, up) ==
    LET err == clientDo(p, up) IN
    IF err # Nil THEN [err |-> err, partial |-> FALSE]
    ELSE IF CheckResponse(up.status) # Nil
    THEN [err |-> CheckResponse(up.status), partial |-> FALSE]
    ELSE IF up.body = "garbage" THEN [err |-> "decode", partial |-> FALSE]
    ELSE [err |-> Nil, partial |-> up.body = "typeerr"]

\* ------------------------------------------------ 64-bit integers (int64)

\* Go's int (on the 64-bit builds) and time.Duration are 64-bit two's
\* complement integers. One is held as four 16-bit limbs, least significant
\* first, so that products wrap as the hardware's do.
LimbBase == 65536
LimbTop == 32768
Int64Limbs == 4

\* x * m + a, limb by limb from limb i with carry c; the last element of the
\* result is the carry out of the top limb.
RECURSIVE MulAddFrom(_, _, _, _)
MulAddFrom(x, m, c, i) ==
    IF i > Len(x) THEN << c >>
    ELSE LET t == x[i] * m + c IN
         << t % LimbBase >> \o MulAddFrom(x, m, t \div LimbBase, i + 1)

\* The low 64 bits.
Wrap64(y) == SubSeq(y, 1, Int64Limbs)

Int64(n) == Wrap64(MulAddFrom(<< 0, 0, 0, 0 >>, 1, n, 1))

Zero64 == Int64(0)

IsNegative(x) == x[Int64Limbs] >= LimbTop

\* -x
Neg64(x) ==
    Wrap64(MulAddFrom([i \in 1..Int64Limbs |-> LimbBase - 1 - x[i]], 1, 1, 1))

\* x * 1000, wrapped to 64 bits.
Times1000(x) == Wrap64(MulAddFrom(x, 1000, 0, 1))

Positive(x) == ~IsNegative(x) /\ x # Zero64

\* x \div m for 0 <= x, from limb i down with remainder r.
RECURSIVE DivFrom(_, _, _, _)
DivFrom(x, m, r, i) ==
    IF i = 0 THEN << >>
    ELSE LET t == r * LimbBase + x[i] IN
         DivFrom(x, m, t % m, i - 1) \o << t \div m >>

Div1000(x) == DivFrom(x, 1000, 0, Int64Limbs)

\* The value of a small non-negative x as a number of the model.
Small(x) == x[1] + LimbBase * x[2]

\* ------------------------------------------------------------ strconv.Atoi

Digits == { "0", "1", "2", "3", "4", "5", "6", "7", "8", "9" }

DigitValue(ch) == CHOOSE d \in 0..9 : ToString(d) = ch

\* The magnitude of the digits s[i..], accumulated onto acc; over tells
\* that it left 64 bits.
RECURSIVE ParseDigits(_, _, _, _)
ParseDigits(s, i, acc, over) ==
    IF i > Len(s) THEN [mag |-> acc, over |-> over]
    ELSE LET y == MulAddFrom(acc, 10, DigitValue(s[i]), 1) IN
         ParseDigits(s, i + 1, Wrap64(y), over \/ y[Int64Limbs + 1] # 0)

\* strconv.Atoi(s): an optional sign and decimal digits; a syntax error for
\* anything else, a range error outside int64.
Atoi(s) ==
    LET signed == Len(s) > 0 /\ s[1] \in { "+", "-" }
        neg == Len(s) > 0 /\ s[1] = "-"
        ds == IF signed THEN Tail(s) ELSE s
        p == ParseDigits(ds, 1, Zero64, FALSE)
    IN  IF Len(ds) = 0 \/ \E i \in 1..Len(ds) : ds[i] \notin Digits
        THEN [err |-> "syntax", n |-> Zero64]
        ELSE IF p.over \/ (IsNegative(p.mag) /\ ~(neg /\ p.mag = << 0, 0, 0, LimbTop >>))
        THEN [err |-> "range", n |-> Zero64]
        ELSE [err |-> Nil, n |-> IF neg THEN Neg64(p.mag) ELSE p.mag]

\* --------------------------------------------------------- time.Duration

\* time.Duration(n) * time.Millisecond: a count of nanoseconds.
Milliseconds(n) == Times1000(Times1000(n))

\* 10 * time.Second
defaultRetryAfter == Times1000(Times1000(Times1000(Int64(10))))

\* The whole milliseconds of a duration 0 <= d.
InMilliseconds(d) == Small(Div1000(Div1000(d)))

StatusTooManyRequests == 429

\* ExtractRetryAfter, rest.go lines 209-218. Header.Get gives "" for a
\* header that is absent.
ExtractRetryAfter(resp) ==
    IF resp.status # StatusTooManyRequests THEN Zero64
    ELSE LET a == Atoi(resp.retryAfter) IN
         IF a.err # Nil THEN defaultRetryAfter
         ELSE Milliseconds(a.n)

\* ------------------------------------------------- discord.RestClient.Do

\* The goroutines that call RestClient.Do.
RestCallers == { "r1", "r2" }

\* What GetGateway and CreateMessage hand to NewRequestCreatorFunc and Do: the
\* path, and whether a value v is decoded from the response. The last is a
\* CreateMessage for a channel id url.Parse rejects.
RestCalls ==
    { [path |-> << "g", "a", "t", "e", "w", "a", "y" >>, v |-> TRUE],
      [path |-> << "c", "/", "7", "/", "m" >>, v |-> FALSE],
      [path |-> << "c", "/", "%", "/", "m" >>, v |-> FALSE] }

\* Retry-After headers of the responses the upstream gives in a run: absent,
\* zero, negative and positive.
RetryHeaders == { << >>, << "0" >>, << "-", "5" >>, << "2" >> }

\* Response bodies: a JSON object of the expected shape, no body, and text
\* that is not JSON.
Bodies == { "json", "empty", "html" }

RestStatuses == { 199, 200, 299, 300, 404, StatusTooManyRequests }

\* The outcomes of client.Do: a network-level failure, or a response. Only a
\* 429 response carries Retry-After. closeErr is the result of Body.Close,
\* which Do looks at for the responses it retries only; their bodies, which
\* it does not read, are empty.
Responses ==
    { [status |-> s, retryAfter |-> h, body |-> b, closeErr |-> c] :
        s \in RestStatuses, h \in RetryHeaders, b \in Bodies,
        c \in BOOLEAN }

RestUpstream ==
    { [net |-> "fail"] } \cup
    { [net |-> "ok", resp |-> r] :
        r \in { x \in Responses :
                  /\ x.status # StatusTooManyRequests => x.retryAfter = << >>
                  /\ IF Positive(ExtractRetryAfter(x))
                     THEN x.body = "empty"
                     ELSE ~x.closeErr } }

\* NewRequest without the look at ctx.Err().
NewRequestIgnoresCtx(c, call) ==
    IF UrlParseError(call.path) THEN [req |-> NoReq, err |-> [kind |-> "url"]]
    ELSE [req |-> [url |-> call.path, Cancel |-> TRUE], err |-> NoErr]

\* RestClient.NewRequest, lines 95-130: the error of ctx.Err() or of
\* url.Parse, or the request with req.Cancel = ctx.Done().
RestNewRequest(c, call) ==
    IF rctx[c] # "live" THEN [req |-> NoReq, err |-> [kind |-> "ctx"]]
    ELSE IF UrlParseError(call.path) THEN [req |-> NoReq, err |-> [kind |-> "url"]]
    ELSE [req |-> [url |-> call.path, Cancel |-> TRUE], err |-> NoErr]

\* createErrorResponse, lines 63-73: the ErrorResponse with the response and,
\* from a JSON body, its code and message; the error of json.Unmarshal for a
\* body that is not JSON.
createErrorResponse(resp) ==
    IF resp.body = "html" THEN [kind |-> "json.SyntaxError"]
    ELSE [kind |-> "ErrorResponse", StatusCode |-> resp.status,
          Code |-> resp.body = "json", Message |-> resp.body = "json"]

\* CheckResponse, rest.go lines 222-227.
RestCheckResponse(resp) ==
    IF resp.status >= 200 /\ resp.status <= 299 THEN NoErr
    ELSE createErrorResponse(resp)

\* Do after the loop, lines 181-202: what it returns for response resp.
AfterLoop(call, resp) ==
    LET err == RestCheckResponse(resp) IN
    IF err # NoErr THEN [resp |-> NoResp, err |-> err]
    ELSE IF call.v /\ resp.body # "json"
    THEN [resp |-> NoResp, err |-> [kind |-> "decode"]]
    ELSE [resp |-> resp, err |-> NoErr]

\* ------------------------------------------------------ WebSocketClient

\* The connections of a run, in the order they are dialled; 0 stands for nil,
\* also for the channels made with connection c, which carry its number.
Conns == 1..MaxConns

\* The client NewWebSocketClient returns, lines 44-66: no connection and no
\* channels, an empty wait group. For each connection the record holds the
\* state of its close and ready channel (closed or not), of its socket, of
\* its listen, heartbeat and reconnect goroutine, and the number of
\* handlePayload goroutines with a READY event (atReady: those of them that
\* are past the sequence number update) and of sendPayload goroutines
\* with a heartbeat that have not run yet; api is the goroutine of the
\* client's user and returned the last call of it that returned, with its
\* error ("Dial" and "Close" for what Dial and conn.Close() gave); backoff
\* is the variable of that name of the reconnect that holds sc.mu, in
\* seconds, 0 when there is none, and failures the number of times its
\* connect failed. seqNum is nil ({}) or points to a number ({n}); dispatches
\* holds the handlePayload goroutines with another dispatch than READY, each
\* with its payload and whether it is before the sequence number update or
\* before the event's handler; msgHandlers is the length of the list of
\* message handlers. History: received (READY payloads read from each
\* connection), madeBy (who dialled it), cycles (reconnects that got past the
\* check of line 234), disconnected (the connections a Disconnect that has
\* returned closed), handled (sequence numbers that went through the
\* update), stored (the values seqNum has had), beat (the seqNum in the last
\* heartbeat payload) and invoked (for each message handler, the sequence
\* numbers of the messages it was started with, in order).
NewWebSocketClient ==
    [mu |-> "free", waitGroup |-> 0, conn |-> 0, close |-> 0, ready |-> 0,
     dialled |-> 0,
     closeCh |-> [c \in Conns |-> FALSE],
     readyCh |-> [c \in Conns |-> FALSE],
     socket |-> [c \in Conns |-> "none"],
     listen |-> [c \in Conns |-> "none"],
     heartbeat |-> [c \in Conns |-> "none"],
     reconnect |-> [c \in Conns |-> "none"],
     handlers |-> [c \in Conns |-> 0],
     atReady |-> [c \in Conns |-> 0],
     senders |-> [c \in Conns |-> 0],
     api |-> "idle", panicked |-> FALSE,
     returned |-> [call |-> "none", err |-> "nil"],
     backoff |-> 0, failures |-> 0,
     received |-> [c \in Conns |-> 0],
     madeBy |-> [c \in Conns |-> "none"],
     cycles |-> [c \in Conns |-> 0],
     disconnected |-> {},
     seqNum |-> {}, dispatches |-> {}, msgHandlers |-> 0,
     handled |-> {}, stored |-> {{}}, beat |-> {},
     invoked |-> [h \in 1..MaxHandlers |-> << >>]]

\* ------------------------------------------------------------------- Init

Init ==
    /\ now = 0
    /\ nextCh = 1
    /\ cache = [k \in Keys |-> NoEntry]
    /\ pc = [p \in Procs |-> "idle"]
    /\ battleTag = [p \in Procs |-> <<>>]
    /\ ctx = [p \in Procs |-> "live"]
    /\ deferred = [p \in Procs |-> FALSE]
    /\ req = [p \in Procs |-> NoReq]
    /\ ret = [p \in Procs |-> NoRet]
    /\ trace = [p \in Procs |-> "start"]
    /\ httpCalls = 0
    /\ lastStore = [k \in Keys |-> -1]
    /\ clock = 0
    /\ mu = "free"
    /\ rpc = [c \in RestCallers |-> "idle"]
    /\ rctx = [c \in RestCallers |-> "live"]
    /\ rcall = [c \in RestCallers |-> NoReq]
    /\ rresp = [c \in RestCallers |-> NoResp]
    /\ retryAfter = [c \in RestCallers |-> Zero64]
    /\ rret = [c \in RestCallers |-> NoRet]
    /\ sends = [c \in RestCallers |-> 0]
    /\ gotAt = [c \in RestCallers |-> 0]
    /\ probe = NoResp
    /\ cmd = [p \in Procs |-> [at |-> "idle", battleTag |-> << >>, sent |-> << >>]]
    /\ userSource = [impl |-> "none"]
    /\ sc = NewWebSocketClient

\* ---------------------------------------------------------------- GetStats

\* Calls that may still issue an upstream call.
Pending == {p \in Procs : pc[p] \in {"select", "check2", "request"}}

\* A return that does not run the deferred release.
ReturnSkipsDeferred(p, stats, err) ==
    /\ ret' = [ret EXCEPT ![p] = [stats |-> stats, err |-> err]]
    /\ pc' = [pc EXCEPT ![p] = "done"]

\* A return statement of GetStats: the deferred release, when registered,
\* runs before the caller gets the result.
Return(p, stats, err) ==
    /\ ret' = [ret EXCEPT ![p] = [stats |-> stats, err |-> err]]
    /\ pc' = [pc EXCEPT ![p] = IF deferred[p] THEN "return" ELSE "done"]

\* GetStats taking the token before its first look at the cache.
GetStatsTokenFirst(p, tag) ==
    /\ pc[p] \in {"idle", "done"}
    /\ nextCh > 0
    /\ nextCh' = nextCh - 1
    /\ deferred' = [deferred EXCEPT ![p] = TRUE]
    /\ battleTag' = [battleTag EXCEPT ![p] = Replace(tag)]
    /\ pc' = [pc EXCEPT ![p] = "check2"]
    /\ ret' = [ret EXCEPT ![p] = NoRet]
    /\ trace' = [trace EXCEPT ![p] = "token"]
    /\ ctx' = [ctx EXCEPT ![p] = "live"]
    /\ UNCHANGED << now, cache, req, httpCalls, lastStore >>
    /\ UNCHANGED outsideOverwatch

\* GetStats, lines 380-388: the replace and the first cache check. The
\* history records a hit ("fast", or "fastBusy" when another goroutine holds
\* the token at that moment) and a miss ("stale" when an expired entry is
\* present, "start" otherwise).
GetStats(p, tag) ==
    /\ pc[p] \in {"idle", "done"}
    /\ LET bt == Replace(tag)
           hit == getUserStatsFromCache(bt) IN
       /\ hit.ok \/ httpCalls + Cardinality(Pending) < MaxHttp
       /\ battleTag' = [battleTag EXCEPT ![p] = bt]
       /\ IF hit.ok
          THEN /\ Return(p, hit.stats, Nil)
               /\ trace' = [trace EXCEPT ![p] =
                      IF \E q \in Procs : deferred[q]
                      THEN "fastBusy" ELSE "fast"]
          ELSE /\ pc' = [pc EXCEPT ![p] = "select"]
               /\ ret' = [ret EXCEPT ![p] = NoRet]
               /\ trace' = [trace EXCEPT ![p] =
                      IF cache[bt] # NoEntry THEN "stale" ELSE "start"]
    /\ ctx' = [ctx EXCEPT ![p] = "live"]
    /\ UNCHANGED << now, nextCh, cache, deferred, req, httpCalls, lastStore >>
    /\ UNCHANGED outsideOverwatch

\* The release deferred before the select, so that it also runs when the
\* context wins.
SelectCtxReleases(p) ==
    /\ pc[p] = "select"
    /\ ctx[p] # "live"
    /\ ret' = [ret EXCEPT ![p] = [stats |-> NoStats, err |-> "ctx"]]
    /\ deferred' = [deferred EXCEPT ![p] = TRUE]
    /\ pc' = [pc EXCEPT ![p] = "return"]
    /\ UNCHANGED << now, nextCh, cache, battleTag, ctx, req, trace, httpCalls,
                    lastStore >>
    /\ UNCHANGED outsideOverwatch

\* select, case <-ctx.Done(): return nil, ctx.Err()
SelectCtx(p) ==
    /\ pc[p] = "select"
    /\ ctx[p] # "live"
    /\ Return(p, NoStats, "ctx")
    /\ UNCHANGED << now, nextCh, cache, battleTag, ctx, deferred, req, trace,
                    httpCalls, lastStore >>
    /\ UNCHANGED outsideOverwatch

\* The token looked at but left in the channel.
SelectTokenPeeks(p) ==
    /\ pc[p] = "select"
    /\ nextCh > 0
    /\ deferred' = [deferred EXCEPT ![p] = TRUE]
    /\ trace' = [trace EXCEPT ![p] = "token"]
    /\ pc' = [pc EXCEPT ![p] = "check2"]
    /\ UNCHANGED << now, nextCh, cache, battleTag, ctx, req, ret, httpCalls,
                    lastStore >>
    /\ UNCHANGED outsideOverwatch

\* select, case <-ow.nextCh: take the token and defer its release.
SelectToken(p) ==
    /\ pc[p] = "select"
    /\ nextCh > 0
    /\ nextCh' = nextCh - 1
    /\ deferred' = [deferred EXCEPT ![p] = TRUE]
    /\ trace' = [trace EXCEPT ![p] = "token"]
    /\ pc' = [pc EXCEPT ![p] = "check2"]
    /\ UNCHANGED << now, cache, battleTag, ctx, req, ret, httpCalls, lastStore >>
    /\ UNCHANGED outsideOverwatch

\* GetStats without the second look at the cache.
Check2Omitted(p) ==
    /\ pc[p] = "check2"
    /\ pc' = [pc EXCEPT ![p] = "request"]
    /\ UNCHANGED << now, nextCh, cache, battleTag, ctx, deferred, req, ret,
                    trace, httpCalls, lastStore >>
    /\ UNCHANGED outsideOverwatch

\* Lines 401-405: the cache check after the token was obtained.
Check2(p) ==
    /\ pc[p] = "check2"
    /\ LET hit == getUserStatsFromCache(battleTag[p]) IN
       IF hit.ok
       THEN Return(p, hit.stats, Nil)
       ELSE /\ pc' = [pc EXCEPT ![p] = "request"]
            /\ UNCHANGED ret
    /\ UNCHANGED << now, nextCh, cache, battleTag, ctx, deferred, req, trace,
                    httpCalls, lastStore >>
    /\ UNCHANGED outsideOverwatch

\* Lines 407-417: build the request, attach the cancel channel, call client.Do.
Request(p) ==
    /\ pc[p] = "request"
    /\ LET r == NewRequest(Path(battleTag[p])) IN
       IF r.err # Nil
       THEN /\ Return(p, NoStats, r.err)
            /\ UNCHANGED << req, trace, httpCalls >>
       ELSE /\ req' = [req EXCEPT ![p] = AttachCancel(r.req)]
            /\ httpCalls' = httpCalls + 1
            /\ trace' = [trace EXCEPT ![p] = "http"]
            /\ pc' = [pc EXCEPT ![p] = "inflight"]
            /\ UNCHANGED ret
    /\ UNCHANGED << now, nextCh, cache, battleTag, ctx, deferred, lastStore >>
    /\ UNCHANGED outsideOverwatch

\* The result returned without being added to the cache.
RespondNoStore(p, up) ==
    /\ pc[p] = "inflight"
    /\ LET r == Do(p, up)
           userStats == [tag |-> battleTag[p], asOf |-> now,
                         partial |-> r.partial] IN
       IF r.err # Nil
       THEN Return(p, NoStats, r.err)
       ELSE Return(p, userStats, Nil)
    /\ req' = [req EXCEPT ![p] = NoReq]
    /\ UNCHANGED << now, nextCh, cache, battleTag, ctx, deferred, trace,
                    httpCalls, lastStore >>
    /\ UNCHANGED outsideOverwatch

\* The entry added to the cache before the error of ow.Do is looked at.
RespondStoresFirst(p, up) ==
    /\ pc[p] = "inflight"
    /\ LET r == Do(p, up)
           userStats == [tag |-> battleTag[p], asOf |-> now,
                         partial |-> r.partial] IN
       /\ cache' \in CacheAdd(cache, battleTag[p],
                               [stats |-> userStats, addedAt |-> now])
       /\ lastStore' = [lastStore EXCEPT ![battleTag[p]] = now]
       /\ IF r.err # Nil
          THEN Return(p, NoStats, r.err) /\ UNCHANGED trace
          ELSE /\ trace' = [trace EXCEPT ![p] = "stored"]
               /\ Return(p, userStats, Nil)
    /\ req' = [req EXCEPT ![p] = NoReq]
    /\ UNCHANGED << now, nextCh, battleTag, ctx, deferred, httpCalls >>
    /\ UNCHANGED outsideOverwatch

\* A failed fetch remembered in the cache, as an entry without stats.
RespondCachesFailure(p, up) ==
    /\ pc[p] = "inflight"
    /\ LET r == Do(p, up)
           userStats == [tag |-> battleTag[p], asOf |-> now,
                         partial |-> r.partial] IN
       /\ cache' \in CacheAdd(cache, battleTag[p],
                     [stats |-> IF r.err # Nil THEN NoStats ELSE userStats,
                      addedAt |-> now])
       /\ lastStore' = [lastStore EXCEPT ![battleTag[p]] = now]
       /\ IF r.err # Nil
          THEN Return(p, NoStats, r.err) /\ UNCHANGED trace
          ELSE /\ trace' = [trace EXCEPT ![p] = "stored"]
               /\ Return(p, userStats, Nil)
    /\ req' = [req EXCEPT ![p] = NoReq]
    /\ UNCHANGED << now, nextCh, battleTag, ctx, deferred, httpCalls >>
    /\ UNCHANGED outsideOverwatch

\* Lines 417-426: ow.Do returns; on success the entry is stored.
Respond(p, up) ==
    /\ pc[p] = "inflight"
    /\ LET r == Do(p, up)
           userStats == [tag |-> battleTag[p], asOf |-> now,
                         partial |-> r.partial] IN
       IF r.err # Nil
       THEN /\ Return(p, NoStats, r.err)
            /\ UNCHANGED << cache, trace, lastStore >>
       ELSE /\ cache' \in CacheAdd(cache, battleTag[p],
                                   [stats |-> userStats, addedAt |-> now])
            /\ lastStore' = [lastStore EXCEPT ![battleTag[p]] = now]
            /\ trace' = [trace EXCEPT ![p] = "stored"]
            /\ Return(p, userStats, Nil)
    /\ req' = [req EXCEPT ![p] = NoReq]
    /\ UNCHANGED << now, nextCh, battleTag, ctx, deferred, httpCalls >>
    /\ UNCHANGED outsideOverwatch

\* The token is dropped instead of being sent back to nextCh.
DeferredDrops(p) ==
    /\ pc[p] = "return"
    /\ deferred[p]
    /\ deferred' = [deferred EXCEPT ![p] = FALSE]
    /\ pc' = [pc EXCEPT ![p] = "done"]
    /\ UNCHANGED << now, nextCh, cache, battleTag, ctx, req, ret, trace,
                    httpCalls, lastStore >>
    /\ UNCHANGED outsideOverwatch

\* The deferred func of line 396: ow.nextCh <- true, which blocks while the
\* buffer is full.
Deferred(p) ==
    /\ pc[p] = "return"
    /\ deferred[p]
    /\ nextCh < nextChCap
    /\ nextCh' = nextCh + 1
    /\ deferred' = [deferred EXCEPT ![p] = FALSE]
    /\ pc' = [pc EXCEPT ![p] = "done"]
    /\ UNCHANGED << now, cache, battleTag, ctx, req, ret, trace, httpCalls,
                    lastStore >>
    /\ UNCHANGED outsideOverwatch

\* The caller's context is cancelled, or its deadline fires, while the
\* goroutine is suspended: waiting in the select, or in client.Do. (Between
\* the two the goroutine runs on; a cancellation that arrives there is seen by
\* nothing before client.Do, and is the same as one arriving in client.Do.)
Cancel(p) ==
    /\ pc[p] \in {"select", "inflight"}
    /\ ctx[p] = "live"
    /\ ctx' = [ctx EXCEPT ![p] = pc[p]]
    /\ UNCHANGED << now, nextCh, cache, pc, battleTag, deferred, req, ret,
                    trace, httpCalls, lastStore >>
    /\ UNCHANGED outsideOverwatch

Tick ==
    /\ now < MaxTime
    /\ now' = now + 1
    /\ UNCHANGED << nextCh, cache, pc, battleTag, ctx, deferred, req, ret,
                    trace, httpCalls, lastStore >>
    /\ UNCHANGED outsideOverwatch

Step(p) ==
    \/ \E tag \in Tags : GetStats(p, tag)
    \/ SelectCtx(p)
    \/ SelectToken(p)
    \/ Check2(p)
    \/ Request(p)
    \/ \E up \in Upstream : Respond(p, up)
    \/ Deferred(p)

Next ==
    \/ \E p \in Callers : Step(p)
    \/ \E p \in Callers : Cancel(p)
    \/ Tick

Spec == Init /\ [][Next]_vars

\* ------------------------------------------------------ a burst of callers

\* The spellings of one account's battle tag.
BurstTags == {t \in Tags : Replace(t) = <<"a", "-", "1">>}

\* The clock stays within the staleness limit of anything stored in the run.
TickWithinTTL == now < cacheDurationStats /\ Tick

\* Every goroutine asks for the same account, no context is cancelled and the
\* upstream answers successfully.
BurstStep(p) ==
    \/ \E tag \in BurstTags : GetStats(p, tag)
    \/ SelectToken(p)
    \/ Check2(p)
    \/ Request(p)
    \/ \E up \in UpstreamOK : Respond(p, up)
    \/ Deferred(p)

NextBurst ==
    \/ \E p \in Procs : BurstStep(p)
    \/ TickWithinTTL

SpecBurst == Init /\ [][NextBurst]_vars

\* ---------------------------------------------------------- fair scheduling

\* The steps of a running call that do not wait for the token: a runnable
\* goroutine is scheduled, and every upstream call ends.
Progress(p) ==
    \/ SelectCtx(p)
    \/ Check2(p)
    \/ Request(p)
    \/ \E up \in Upstream : Respond(p, up)
    \/ Deferred(p)

\* A goroutine blocked in the select on <-ow.nextCh is queued on the channel
\* and a send hands the token to a queued receiver: a waiter for which the
\* token becomes available again and again gets it. Nothing obliges a caller
\* to call GetStats, or a context to be cancelled.
Fairness ==
    \A p \in Callers : WF_vars(Progress(p)) /\ SF_vars(SelectToken(p))

\* One account and the tag url.Parse rejects, whose calls take the token and
\* return without an upstream call.
FairTags == { <<"a", "#", "1">>, <<"%">> }

FairStep(p) ==
    \/ \E tag \in FairTags : GetStats(p, tag)
    \/ SelectToken(p)
    \/ Progress(p)

NextFair ==
    \/ \E p \in Callers : FairStep(p)
    \/ \E p \in Callers : Cancel(p)
    \/ Tick

SpecFair == Init /\ [][NextFair]_vars /\ Fairness

\* ---------------------------------------------------------- RestClient.Do

\* A return statement of Do: the deferred rc.mu.Unlock() runs.
RestReturn(c, resp, err) ==
    /\ rret' = [rret EXCEPT ![c] = [resp |-> resp, err |-> err]]
    /\ rpc' = [rpc EXCEPT ![c] = "done"]
    /\ mu' = "free"

\* GetGateway or CreateMessage calls Do, which goes for rc.mu.
RestDo(c, call) ==
    /\ rpc[c] = "idle"
    /\ rcall' = [rcall EXCEPT ![c] = call]
    /\ rpc' = [rpc EXCEPT ![c] = "lock"]
    /\ UNCHANGED << clock, mu, rctx, rresp, retryAfter, gotAt, rret, sends,
                    probe >>
    /\ UNCHANGED outsideRest

\* rc.mu.Lock(), line 151.
Lock(c) ==
    /\ rpc[c] = "lock"
    /\ mu = "free"
    /\ mu' = c
    /\ rpc' = [rpc EXCEPT ![c] = "loop"]
    /\ UNCHANGED << clock, rctx, rcall, rresp, retryAfter, gotAt, rret, sends,
                    probe >>
    /\ UNCHANGED outsideRest

\* The head of the loop, lines 155-159: reqFunc() builds the request, and
\* client.Do is called with it.
Loop(c) ==
    /\ rpc[c] = "loop"
    /\ LET r == RestNewRequest(c, rcall[c]) IN
       IF r.err # NoErr
       THEN /\ RestReturn(c, NoResp, r.err)
            /\ UNCHANGED sends
       ELSE /\ sends' = [sends EXCEPT ![c] = @ + 1]
            /\ rpc' = [rpc EXCEPT ![c] = "send"]
            /\ UNCHANGED << mu, rret >>
    /\ UNCHANGED << clock, rctx, rcall, rresp, retryAfter, gotAt, probe >>
    /\ UNCHANGED outsideRest

\* The upstream goes on answering 429 with a wait only while the call has
\* sends left.
MayAnswer(c, up) ==
    up.net = "ok" /\ Positive(ExtractRetryAfter(up.resp)) => sends[c] < MaxSends

\* A failed send that is tried again.
ReceiveRetries(c, up) ==
    /\ rpc[c] = "send"
    /\ up.net = "fail"
    /\ rpc' = [rpc EXCEPT ![c] = "loop"]
    /\ UNCHANGED << clock, mu, rctx, rcall, rresp, retryAfter, gotAt, rret,
                    sends, probe >>
    /\ UNCHANGED outsideRest

\* Do giving up rc.mu for the time of the backoff wait.
ReceiveUnlocksToSleep(c, up) ==
    /\ rpc[c] = "send"
    /\ MayAnswer(c, up)
    /\ IF rctx[c] # "live"
       THEN /\ RestReturn(c, NoResp, [kind |-> "canceled"])
            /\ UNCHANGED << rresp, retryAfter, gotAt >>
       ELSE IF up.net = "fail"
       THEN /\ RestReturn(c, NoResp, [kind |-> "transport"])
            /\ UNCHANGED << rresp, retryAfter, gotAt >>
       ELSE /\ rresp' = [rresp EXCEPT ![c] = up.resp]
            /\ retryAfter' = [retryAfter EXCEPT ![c] = ExtractRetryAfter(up.resp)]
            /\ IF ~Positive(ExtractRetryAfter(up.resp))
               THEN /\ LET out == AfterLoop(rcall[c], up.resp) IN
                       RestReturn(c, out.resp, out.err)
                    /\ UNCHANGED gotAt
               ELSE IF up.resp.closeErr
               THEN /\ RestReturn(c, NoResp, [kind |-> "close"])
                    /\ UNCHANGED gotAt
               ELSE /\ rpc' = [rpc EXCEPT ![c] = "sleep"]
                    /\ gotAt' = [gotAt EXCEPT ![c] = clock]
                    /\ mu' = "free"
                    /\ UNCHANGED rret
    /\ UNCHANGED << clock, rctx, rcall, sends, probe >>
    /\ UNCHANGED outsideRest

\* client.Do returns, lines 159-179: an error ends Do; a response with a
\* positive retryAfter is closed and slept on; any other response leaves the
\* loop and is checked and decoded (lines 181-202).
Receive(c, up) ==
    /\ rpc[c] = "send"
    /\ MayAnswer(c, up)
    /\ IF rctx[c] # "live"
       THEN /\ RestReturn(c, NoResp, [kind |-> "canceled"])
            /\ UNCHANGED << rresp, retryAfter, gotAt >>
       ELSE IF up.net = "fail"
       THEN /\ RestReturn(c, NoResp, [kind |-> "transport"])
            /\ UNCHANGED << rresp, retryAfter, gotAt >>
       ELSE /\ rresp' = [rresp EXCEPT ![c] = up.resp]
            /\ retryAfter' = [retryAfter EXCEPT ![c] = ExtractRetryAfter(up.resp)]
            /\ IF ~Positive(ExtractRetryAfter(up.resp))
               THEN /\ LET out == AfterLoop(rcall[c], up.resp) IN
                       RestReturn(c, out.resp, out.err)
                    /\ UNCHANGED gotAt
               ELSE IF up.resp.closeErr
               THEN /\ RestReturn(c, NoResp, [kind |-> "close"])
                    /\ UNCHANGED gotAt
               ELSE /\ rpc' = [rpc EXCEPT ![c] = "sleep"]
                    /\ gotAt' = [gotAt EXCEPT ![c] = clock]
                    /\ UNCHANGED << mu, rret >>
    /\ UNCHANGED << clock, rctx, rcall, sends, probe >>
    /\ UNCHANGED outsideRest

\* time.Sleep returning at once.
SleepSkipped(c) ==
    /\ rpc[c] = "sleep"
    /\ rpc' = [rpc EXCEPT ![c] = "loop"]
    /\ UNCHANGED << clock, mu, rctx, rcall, rresp, retryAfter, gotAt, rret,
                    sends, probe >>
    /\ UNCHANGED outsideRest

\* time.Sleep(retryAfter), line 178, returns: at least retryAfter has passed
\* since it was called.
Sleep(c) ==
    /\ rpc[c] = "sleep"
    /\ LET t == gotAt[c] + InMilliseconds(retryAfter[c]) IN
       clock' = IF clock < t THEN t ELSE clock
    /\ rpc' = [rpc EXCEPT ![c] = "loop"]
    /\ UNCHANGED << mu, rctx, rcall, rresp, retryAfter, gotAt, rret, sends,
                    probe >>
    /\ UNCHANGED outsideRest

\* The context of the call is cancelled while its goroutine is suspended:
\* waiting for rc.mu, in client.Do, or in time.Sleep.
RestCancel(c) ==
    /\ rpc[c] \in { "lock", "send", "sleep" }
    /\ rctx[c] = "live"
    /\ rctx' = [rctx EXCEPT ![c] = rpc[c]]
    /\ UNCHANGED << clock, mu, rpc, rcall, rresp, retryAfter, gotAt, rret,
                    sends, probe >>
    /\ UNCHANGED outsideRest

\* The outcomes of client.Do in a run about retrying: the statuses are a
\* success, an error and 429.
RetryUpstream ==
    { up \in RestUpstream :
        up.net = "ok" => up.resp.status \in { 200, 404, StatusTooManyRequests } }

\* The steps of a goroutine in Do, the upstream answering from ups.
RestStep(c, ups) ==
    \/ \E call \in RestCalls : RestDo(c, call)
    \/ Lock(c)
    \/ Loop(c)
    \/ \E up \in ups : Receive(c, up)
    \/ Sleep(c)

NextRest ==
    \/ \E c \in RestCallers : RestStep(c, RetryUpstream)
    \/ \E c \in RestCallers : RestCancel(c)

SpecRest == Init /\ [][NextRest]_vars

\* ------------------------------------------------------------------ claims

Holders == {p \in Procs : deferred[p]}

Returned == {p \in Procs : pc[p] = "done"}

\* The step in which p hands its request to client.Do.
Issues(p) == pc[p] = "request" /\ pc'[p] = "inflight"

\* The cache key of each battle tag.
KeyOf == [t \in Tags |-> Replace(t)]

\* The step is one of goroutine p.
Acts(p) ==
    <<pc[p], battleTag[p], ctx[p], ret[p], trace[p]>> #
        <<pc'[p], battleTag'[p], ctx'[p], ret'[p], trace'[p]>>

\* C1: in a burst of concurrent GetStats calls for one battle tag against an
\* empty cache and a succeeding upstream, exactly one upstream call is made
\* and every call returns the same stats, without error.
C1_SingleFlight ==
    /\ httpCalls <= 1
    /\ Returned # {} => httpCalls = 1
    /\ \A p, q \in Returned : ret[p].err = Nil /\ ret[p].stats = ret[q].stats

\* All three calls of the burst have returned: one fetched, and one had to
\* wait for the token and found the entry on its second look.
C1_Witness ==
    /\ Returned = Procs
    /\ httpCalls = 1
    /\ \E p, q \in Procs : trace[p] = "stored" /\ trace[q] = "token"

\* C2: at most one upstream HTTP call is in flight at any instant.
C2_OneInFlight == Cardinality({p \in Procs : pc[p] = "inflight"}) <= 1

\* A call is in flight while a call for another key waits for the token.
C2_Witness ==
    \E p, q \in Procs :
        /\ pc[p] = "inflight"
        /\ pc[q] = "select"
        /\ battleTag[p] # battleTag[q]

\* C3: the tokens in nextCh plus the calls that hold the token are 1, and a
\* call that has not taken the token, or has returned, does not hold it.
C3_TokenConserved ==
    /\ nextCh + Cardinality(Holders) = 1
    /\ \A p \in Procs : pc[p] \in {"idle", "select", "done"} => ~deferred[p]

\* A call failed after its upstream call and has returned; another call has
\* the token now.
C3_Witness ==
    \E p, q \in Procs :
        /\ pc[p] = "done"
        /\ trace[p] = "http"
        /\ ret[p].err \in {"transport", "status", "decode", "canceled"}
        /\ q # p
        /\ deferred[q]

\* C4: a call whose context was cancelled while it waited for the token
\* issues no upstream call and returns the context's error.
C4_CancelledWaiterIssuesNoCall ==
    \A p \in Procs :
        ctx[p] = "select" =>
            /\ trace[p] \notin {"http", "stored"}
            /\ pc[p] = "done" => ret[p].err = "ctx"

\* C5 as stated: once an entry for k was stored at time t, no upstream call
\* for k is issued before t + cacheDurationStats.
C5_NoCallWithinTTLOfStore ==
    [][\A p \in Procs :
          Issues(p) =>
              LET t == lastStore[battleTag[p]] IN
              ~(t >= 0 /\ now < t + cacheDurationStats)]_vars

\* C5 as amended: no upstream call for k is issued before t +
\* cacheDurationStats while the entry stored at t is still in the cache.
C5_NoCallWhileCached ==
    [][\A p \in Procs :
          Issues(p) =>
              LET e == cache[battleTag[p]] IN
              ~(e # NoEntry /\ now < e.addedAt + cacheDurationStats)]_vars

\* A call that waited for the token found the entry on its second look and
\* returned it without an upstream call.
C5_Witness ==
    \E p \in Procs :
        /\ pc[p] = "done"
        /\ trace[p] = "token"
        /\ ret[p].err = Nil
        /\ cache[battleTag[p]] # NoEntry
        /\ ret[p].stats = cache[battleTag[p]].stats

\* C6: a GetStats call for a key with a fresh entry can always run, whoever
\* holds the token, and returns the cached stats at once, leaving nextCh and
\* the deferred releases as they were.
C6_FastPath ==
    /\ [](\A p \in Procs, tag \in Tags :
            pc[p] \in {"idle", "done"} /\ getUserStatsFromCache(KeyOf[tag]).ok
                => ENABLED GetStats(p, tag))
    /\ [][\A p \in Procs, tag \in Tags :
            ( /\ Acts(p)
              /\ battleTag'[p] = KeyOf[tag]
              /\ getUserStatsFromCache(KeyOf[tag]).ok
              /\ GetStats(p, tag) ) =>
                /\ pc'[p] = "done"
                /\ ret'[p] = [stats |-> cache[KeyOf[tag]].stats, err |-> Nil]
                /\ nextCh' = nextCh
                /\ deferred' = deferred]_vars

\* A call returned cached stats while another goroutine held the token, and
\* an upstream call is in flight.
C6_Witness ==
    \E p, q \in Procs :
        /\ pc[p] = "done"
        /\ trace[p] = "fastBusy"
        /\ ret[p].err = Nil
        /\ pc[q] = "inflight"

\* What a cache read by p for key k does, by C7.
CacheRead(p, k) ==
    LET e == cache[k] IN
    /\ cache' = cache
    /\ IF e # NoEntry /\ now - e.addedAt <= cacheDurationStats
       THEN ret'[p] = [stats |-> e.stats, err |-> Nil]
       ELSE ret'[p] = NoRet /\ pc'[p] \in {"select", "request"}

\* C7: a cache read returns the stored stats exactly when an entry is
\* present and now - addedAt <= cacheDurationStats, reports absent otherwise,
\* and changes no entry.
C7_CacheRead ==
    [][\A p \in Procs :
          /\ Acts(p) /\ Check2(p) => CacheRead(p, battleTag[p])
          /\ \A tag \in Tags :
                 ( /\ Acts(p)
                   /\ battleTag'[p] = KeyOf[tag]
                   /\ GetStats(p, tag) ) => CacheRead(p, KeyOf[tag])]_vars

\* A call found an expired entry, reported it absent and waits for the
\* token; the entry is still there, as old as it was.
C7_Witness ==
    \E p \in Procs :
        /\ pc[p] = "select"
        /\ trace[p] = "stale"
        /\ cache[battleTag[p]] # NoEntry
        /\ now - cache[battleTag[p]].addedAt > cacheDurationStats

\* C8: every entry is a complete pair of stats and time; a step in which a
\* call returns an error changes no entry; the cache changes only in the step
\* in which a call's upstream fetch succeeds, which stores that call's result
\* under its key (and may evict other entries).
C8_OnlySuccessWrites ==
    /\ [](\A k \in Keys :
            \/ cache[k] = NoEntry
            \/ /\ cache[k].stats # NoStats
               /\ cache[k].stats.tag = k
               /\ cache[k].addedAt \in 0..now)
    /\ [][/\ \A p \in Procs :
               ret'[p] # ret[p] /\ ret'[p] # NoRet /\ ret'[p].err # Nil
                   => cache' = cache
          /\ cache' # cache =>
               \E p \in Procs :
                   /\ pc[p] = "inflight"
                   /\ ret'[p] # NoRet
                   /\ ret'[p].err = Nil
                   /\ cache'[battleTag[p]] =
                          [stats |-> ret'[p].stats, addedAt |-> now]
                   /\ \A k \in Keys \ {battleTag[p]} :
                          cache'[k] \in {cache[k], NoEntry}]_vars

\* A refresh of an expired entry failed to decode; the old entry is still in
\* the cache.
C8_Witness ==
    \E p \in Procs :
        /\ pc[p] = "done"
        /\ ret[p].err = "decode"
        /\ cache[battleTag[p]] # NoEntry
        /\ cache[battleTag[p]].addedAt < now

\* C9: a call whose context was cancelled while its upstream call was in
\* flight returns an error and no stats, has stored nothing, and has put the
\* token back once it has returned.
C9_CancelInFlightAborts ==
    \A p \in Procs :
        ctx[p] = "inflight" /\ pc[p] \in {"return", "done"} =>
            /\ ret[p].err # Nil
            /\ ret[p].stats = NoStats
            /\ trace[p] = "http"
            /\ pc[p] = "done" =>
                   ~deferred[p] /\ nextCh + Cardinality(Holders) = 1

\* A call cancelled in flight has returned the client's cancellation error.
C9_Witness ==
    \E p \in Procs :
        /\ ctx[p] = "inflight"
        /\ pc[p] = "done"
        /\ ret[p].err = "canceled"

\* C10: the token is in nextCh or with a call that can take a step, and a
\* call about to put the token back finds room in nextCh.
C10_GateNeverStuck ==
    /\ nextCh = 1 \/ \E p \in Procs : deferred[p] /\ ENABLED Step(p)
    /\ \A p \in Procs : pc[p] = "return" /\ deferred[p] => nextCh < nextChCap

\* A call is about to put the token back while another call waits for it.
C10_Witness ==
    \E p, q \in Procs :
        /\ pc[p] = "return"
        /\ deferred[p]
        /\ pc[q] = "select"
        /\ nextCh = 0

\* --------------------------------------------------- ExtractRetryAfter alone

\* Retry-After headers handed to ExtractRetryAfter: absent, small integers
\* with and without sign, text, and integers around the largest count of
\* milliseconds a time.Duration holds and around the ends of int64.
ProbeHeaders ==
    { << >>,
      << "0" >>,
      << "-", "5" >>,
      << "2" >>,
      << "+", "7" >>,
      << "x" >>,
      << "1", "x" >>,
      << "0", "0", "7" >>,
      << "9", "2", "2", "3", "3", "7", "2", "0", "3", "6", "8", "5", "4" >>,
      << "9", "2", "2", "3", "3", "7", "2", "0", "3", "6", "8", "5", "5" >>,
      << "-", "9", "2", "2", "3", "3", "7", "2", "0", "3", "6", "8", "5", "4" >>,
      << "-", "9", "2", "2", "3", "3", "7", "2", "0", "3", "6", "8", "5", "5" >>,
      << "9", "2", "2", "3", "3", "7", "2", "0", "3", "6", "8", "5", "4", "7", "7", "5", "8", "0", "7" >>,
      << "9", "2", "2", "3", "3", "7", "2", "0", "3", "6", "8", "5", "4", "7", "7", "5", "8", "0", "8" >>,
      << "-", "9", "2", "2", "3", "3", "7", "2", "0", "3", "6", "8", "5", "4", "7", "7", "5", "8", "0", "8" >> }

ProbeStatuses == RestStatuses \cup { 500, 502 }

ProbeResponses ==
    [status : ProbeStatuses, retryAfter : ProbeHeaders, body : { "empty" },
     closeErr : { FALSE }]

\* A call retryAfter := ExtractRetryAfter(resp), as in line 170.
Extract(r) ==
    /\ probe' = [resp |-> r, out |-> ExtractRetryAfter(r)]
    /\ UNCHANGED << clock, mu, rpc, rctx, rcall, rresp, retryAfter, gotAt,
                    rret, sends >>
    /\ UNCHANGED outsideRest

NextExtract == \E r \in ProbeResponses : Extract(r)

SpecExtract == Init /\ [][NextExtract]_vars

\* ------------------------------------------------------- the two clients

\* One goroutine in RestClient.Do and one in OverwatchClient.GetStats, the
\* upstreams answering in every way.
NextClients ==
    \/ \E c \in { "r1" } : RestStep(c, RestUpstream)
    \/ \E c \in { "r1" } : RestCancel(c)
    \/ \E p \in { "g1" } : Step(p)
    \/ \E p \in { "g1" } : Cancel(p)

SpecClients == Init /\ [][NextClients]_vars

\* ------------------------------------------------------- the command layer

\* tmplFetchError and tmplOverwatchProfile executed on their data: the text
\* of the message, as the pieces of the template and the fields put in.
tmplFetchError(data) ==
    << "Unable to fetch competitive stats for \"" >> \o data.BattleTag
        \o << "\"" >>

tmplOverwatchProfile(stats) ==
    << "__**" >> \o stats.tag \o << " (competitive)**__" >>

\* A message that quotes the error.
ReplyWithError(p) ==
    /\ cmd[p].at = "fetch"
    /\ pc[p] = "done"
    /\ cmd' = [cmd EXCEPT ![p].at = "replied",
                          ![p].sent = Append(@, << ret[p].err >>)]
    /\ UNCHANGED outsideBot

\* showProfile up to the call of GetStats: battleTag is the argument of the
\* command or the tag stored for the user.
ShowProfile(p, tag) ==
    /\ cmd[p].at = "idle"
    /\ pc[p] = "idle"
    /\ cmd' = [cmd EXCEPT ![p].at = "fetch", ![p].battleTag = tag]
    /\ UNCHANGED outsideBot

\* stats, err := GetStats(ctx, battleTag)
Fetch(p) ==
    /\ cmd[p].at = "fetch"
    /\ pc[p] = "idle"
    /\ GetStats(p, cmd[p].battleTag)

\* GetStats has returned: one message goes to the channel, the fetch error
\* text or the profile.
Reply(p) ==
    /\ cmd[p].at = "fetch"
    /\ pc[p] = "done"
    /\ cmd' = [cmd EXCEPT
                 ![p].at = "replied",
                 ![p].sent = Append(@,
                     IF ret[p].err # Nil
                     THEN tmplFetchError([BattleTag |-> cmd[p].battleTag])
                     ELSE tmplOverwatchProfile(ret[p].stats))]
    /\ UNCHANGED outsideBot

BotStep(p) ==
    \/ \E tag \in Tags : ShowProfile(p, tag)
    \/ Fetch(p)
    \/ SelectToken(p)
    \/ Progress(p)
    \/ Reply(p)

\* Commands run in goroutines of their own; the timeout of a command's
\* context cancels it.
NextBot ==
    \/ \E p \in Callers : BotStep(p)
    \/ \E p \in Callers : Cancel(p)
    \/ Tick

SpecBot == Init /\ [][NextBot]_vars

\* C11: under fair scheduling every GetStats call that has started returns,
\* however often other callers take the token.
C11_NoStarvation ==
    \A p \in Procs : (pc[p] \notin {"idle", "done"}) ~> (pc[p] = "done")

\* A call waits with a live context while another call, which took the token
\* after an earlier upstream call had ended, is in client.Do.
C11_Witness ==
    \E p, q \in Procs :
        /\ pc[p] = "select"
        /\ ctx[p] = "live"
        /\ pc[q] = "inflight"
        /\ httpCalls >= 2

\* The number a string of decimal digits writes.
RECURSIVE Decimal(_)
Decimal(s) ==
    IF s = << >> THEN 0
    ELSE 10 * Decimal(SubSeq(s, 1, Len(s) - 1)) + DigitValue(s[Len(s)])

\* The Retry-After header h writes an integer: an optional sign and digits.
IsInteger(h) ==
    LET ds == IF h # << >> /\ h[1] \in { "+", "-" } THEN Tail(h) ELSE h IN
    ds # << >> /\ \A i \in 1..Len(ds) : ds[i] \in Digits

HeaderValue(h) ==
    IF h[1] = "-" THEN 0 - Decimal(Tail(h))
    ELSE IF h[1] = "+" THEN Decimal(Tail(h))
    ELSE Decimal(h)

\* A 429 response with a positive or missing Retry-After, and the wait it
\* asks for in milliseconds.
AsksToWait(resp) ==
    /\ resp # NoResp
    /\ resp.status = 429
    /\ resp.retryAfter = << >>
            \/ (IsInteger(resp.retryAfter) /\ HeaderValue(resp.retryAfter) > 0)

WaitAsked(resp) ==
    IF resp.retryAfter = << >> THEN 10000 ELSE HeaderValue(resp.retryAfter)

\* The step in which c hands a request to client.Do.
Sends(c) == rpc[c] = "loop" /\ rpc'[c] = "send"

C13_Never429Returned ==
    \A c \in RestCallers :
        rpc[c] = "done" =>
            \/ rret[c].err.kind \in
                    { "transport", "close", "canceled", "ctx", "url" }
            \/ rresp[c] # NoResp /\ rresp[c].status # StatusTooManyRequests

\* C14: a call whose context was cancelled during the sleep after a 429
\* sends no further request: it is on its way out of the sleep to the head of
\* the loop, or has returned the context's error and no response, and the
\* step in which it returns frees rc.mu.
C14_CancelInSleepAborts ==
    /\ [](\A c \in RestCallers :
            rctx[c] = "sleep" =>
                /\ rpc[c] \in { "sleep", "loop", "done" }
                /\ rpc[c] # "done" => mu = c
                /\ rpc[c] = "done" =>
                        /\ rret[c] = [resp |-> NoResp, err |-> [kind |-> "ctx"]]
                        /\ mu # c)
    /\ [][\A c \in RestCallers :
            rctx[c] = "sleep" =>
                /\ sends'[c] = sends[c]
                /\ rpc[c] # "done" /\ rpc'[c] = "done" => mu' = "free"]_vars

\* A call cancelled in its sleep has returned after its one send, and the
\* call that waited for rc.mu has it.
C14_Witness ==
    \E c, d \in RestCallers :
        /\ rctx[c] = "sleep"
        /\ rpc[c] = "done"
        /\ sends[c] = 1
        /\ clock > 0
        /\ mu = d

\* A decimal numeral without its leading zeros.
RECURSIVE Strip(_)
Strip(ds) == IF Len(ds) > 1 /\ ds[1] = "0" THEN Strip(Tail(ds)) ELSE ds

\* a <= b for numerals of one length.
RECURSIVE LexLeq(_, _)
LexLeq(a, b) ==
    IF a = << >> THEN TRUE
    ELSE IF a[1] # b[1] THEN DigitValue(a[1]) < DigitValue(b[1])
    ELSE LexLeq(Tail(a), Tail(b))

NumeralLeq(a, b) == Len(a) < Len(b) \/ (Len(a) = Len(b) /\ LexLeq(a, b))

MaxInt64Numeral == << "9", "2", "2", "3", "3", "7", "2", "0", "3", "6", "8", "5", "4", "7", "7", "5", "8", "0", "7" >>

MinInt64Numeral == << "9", "2", "2", "3", "3", "7", "2", "0", "3", "6", "8", "5", "4", "7", "7", "5", "8", "0", "8" >>

IsMinus(h) == h # << >> /\ h[1] = "-"

\* The digits of an integer header.
HeaderDigits(h) == Strip(IF h[1] \in { "+", "-" } THEN Tail(h) ELSE h)

\* The header parses as an integer: it writes one, and the integer is an int.
ParsesAsInteger(h) ==
    /\ IsInteger(h)
    /\ NumeralLeq(HeaderDigits(h),
                  IF IsMinus(h) THEN MinInt64Numeral ELSE MaxInt64Numeral)

\* The decimal numeral of a count 0 <= x of nanoseconds; empty for 0.
RECURSIVE Numeral(_)
Numeral(x) ==
    IF x = Zero64 THEN << >>
    ELSE Numeral(DivFrom(x, 10, 0, Int64Limbs))
            \o << ToString((x[1] + 6 * (x[2] + x[3] + x[4])) % 10) >>

\* The duration d is n milliseconds, n written by the digits ds and negative
\* if neg.
IsMilliseconds(d, ds, neg) ==
    IF ds = << "0" >> THEN d = Zero64
    ELSE /\ IsNegative(d) = neg
         /\ Numeral(IF neg THEN Neg64(d) ELSE d)
                = ds \o << "0", "0", "0", "0", "0", "0" >>

\* C15: ExtractRetryAfter gives 0 for a response that is not a 429; for a 429
\* it gives the Retry-After header as a number of milliseconds when the
\* header parses as an integer, and 10 seconds otherwise.
C15_ExtractRetryAfter ==
    probe # NoResp =>
        LET h == probe.resp.retryAfter IN
        IF probe.resp.status # 429 THEN probe.out = Zero64
        ELSE IF ParsesAsInteger(h)
        THEN IsMilliseconds(probe.out, HeaderDigits(h), IsMinus(h))
        ELSE IsMilliseconds(probe.out, << "1", "0", "0", "0", "0" >>, FALSE)

\* client.Do failing at the network level.
SendFails == [net |-> "fail"]

FetchFails == [net |-> "fail", status |-> 0, body |-> "none"]

\* C16: when client.Do returns an error, Do returns it at once: RestClient.Do
\* returns the error and no response without sleeping or sending again, and
\* OverwatchClient.Do makes GetStats return the error with no upstream call
\* after the failed one.
C16_FailureNotRetried ==
    [][/\ \A c \in RestCallers :
            /\ rpc[c] = "send" /\ Receive(c, SendFails) =>
                    /\ rpc'[c] = "done"
                    /\ rret'[c] =
                          [resp |-> NoResp,
                           err |-> [kind |-> IF rctx[c] = "live"
                                             THEN "transport" ELSE "canceled"]]
                    /\ sends' = sends
                    /\ clock' = clock
                    /\ mu' = "free"
            /\ rpc[c] = "done" => rpc'[c] = "done" /\ sends'[c] = sends[c]
       /\ \A p \in Procs :
            /\ pc[p] = "inflight" /\ Respond(p, FetchFails) =>
                    /\ pc'[p] = "return"
                    /\ ret'[p] =
                          [stats |-> NoStats,
                           err |-> IF ctx[p] = "live"
                                   THEN "transport" ELSE "canceled"]
                    /\ httpCalls' = httpCalls
                    /\ cache' = cache
            /\ pc[p] = "return" /\ pc'[p] # "return" =>
                    pc'[p] = "done" /\ httpCalls' = httpCalls]_vars

\* A send that followed a wait failed and RestClient.Do returned the failure;
\* GetStats returned the failure of its one upstream call.
C16_Witness ==
    /\ \E c \in RestCallers :
            /\ rpc[c] = "done"
            /\ rret[c].err = [kind |-> "transport"]
            /\ sends[c] = 2
    /\ \E p \in Procs :
            /\ pc[p] = "done"
            /\ ret[p].err = "transport"
            /\ httpCalls = 1

\* C17: for a response that is not a 429, Do returns an ErrorResponse with
\* the response's status code, and the code and message of a JSON body,
\* exactly when the status is outside 200..299, whatever the body is.
C17_ErrorCarriesStatus ==
    \A c \in RestCallers :
        rpc[c] = "done" /\ rresp[c] # NoResp /\ rresp[c].status # 429 =>
            IF rresp[c].status \in 200..299
            THEN rret[c].err.kind \in { "nil", "decode" }
            ELSE rret[c].err =
                    [kind |-> "ErrorResponse",
                     StatusCode |-> rresp[c].status,
                     Code |-> rresp[c].body = "json",
                     Message |-> rresp[c].body = "json"]

\* The upstream's 2xx responses with body b.
Answers2xx(b) ==
    { up \in Upstream : up.net = "ok" /\ up.status \in 200..299 /\ up.body = b }

\* C18: when the body of a 2xx response has a field of the wrong type and
\* nothing else wrong, GetStats returns stats with that field at its zero
\* value and no error; when the body cannot be decoded, GetStats returns the
\* decode error and no stats.
C18_TypeMismatchTolerated ==
    [][\A p \in Procs :
          Acts(p) /\ pc[p] = "inflight" /\ ctx[p] = "live" =>
              /\ \A up \in Answers2xx("typeerr") :
                     Respond(p, up) =>
                         /\ ret'[p].err = Nil
                         /\ ret'[p].stats # NoStats
                         /\ ret'[p].stats.tag = battleTag[p]
                         /\ ret'[p].stats.partial
              /\ \A up \in Answers2xx("garbage") :
                     Respond(p, up) =>
                         /\ ret'[p] = [stats |-> NoStats, err |-> "decode"]
                         /\ cache' = cache
              /\ \A up \in Answers2xx("json") :
                     Respond(p, up) =>
                         /\ ret'[p].err = Nil
                         /\ ~ret'[p].stats.partial]_vars

\* GetStats returned stats decoded from a body with a field of the wrong
\* type, and they are in the cache.
C18_Witness ==
    \E p \in Procs :
        /\ pc[p] = "done"
        /\ ret[p].err = Nil
        /\ ret[p].stats.partial
        /\ cache[battleTag[p]] # NoEntry
        /\ cache[battleTag[p]].stats = ret[p].stats

\* The tag with every '#' replaced by '-'.
Normalized(tag) == [i \in DOMAIN tag |-> IF tag[i] = "#" THEN "-" ELSE tag[i]]

\* The step in which command p calls GetStats.
Fetches(p) == cmd[p].at = "fetch" /\ pc[p] = "idle" /\ pc'[p] # "idle"

\* C19: the cache key of a GetStats call is its battle tag with every '#'
\* replaced by '-', which is unchanged by a second replacement; after a
\* GetStats call has fetched and stored stats, a GetStats call within the
\* TTL for any spelling of the tag with the same normalized form returns those
\* stats at once, without an upstream call.
C19_NormalizedKey ==
    /\ [](\A p \in Procs :
            pc[p] # "idle" =>
                /\ battleTag[p] = Normalized(cmd[p].battleTag)
                /\ Normalized(battleTag[p]) = battleTag[p]
                /\ Replace(battleTag[p]) = battleTag[p]
                /\ \A i \in DOMAIN battleTag[p] : battleTag[p][i] # "#")
    /\ [][\A p, q \in Procs :
            ( /\ pc[p] = "done"
              /\ trace[p] = "stored"
              /\ Normalized(cmd[q].battleTag) = Normalized(cmd[p].battleTag)
              /\ now - lastStore[Normalized(cmd[p].battleTag)]
                    <= cacheDurationStats
              /\ Fetches(q) ) =>
                /\ pc'[q] = "done"
                /\ ret'[q] = ret[p]
                /\ ret'[q].err = Nil
                /\ httpCalls' = httpCalls]_vars

\* After a call with the raw tag had fetched, a call with the url-friendly
\* spelling returned its stats from the cache: one upstream call was made.
C19_Witness ==
    \E p, q \in Procs :
        /\ trace[p] = "stored"
        /\ cmd[p].battleTag = << "a", "#", "1" >>
        /\ cmd[q].battleTag = << "a", "-", "1" >>
        /\ pc[q] = "done"
        /\ trace[q] \in { "fast", "fastBusy" }
        /\ ret[q] = ret[p]
        /\ httpCalls = 1

\* The text of the fetch error message for a battle tag.
FetchErrorText(tag) ==
    << "Unable to fetch competitive stats for \"" >> \o tag \o << "\"" >>

\* The errors GetStats returns.
GetStatsErrors == { "ctx", "url", "canceled", "transport", "status", "decode" }

\* C20: a showProfile command whose GetStats call returned an error sends
\* one message, the fetch error text with the battle tag of the command and
\* nothing of the error, and no profile; nothing is sent before GetStats has
\* returned.
C20_OneFetchErrorMessage ==
    /\ [](\A p \in Procs :
            /\ cmd[p].at # "replied" => cmd[p].sent = << >>
            /\ ret[p] # NoRet /\ pc[p] = "done" => ret[p].err \in GetStatsErrors \cup { Nil }
            /\ cmd[p].at = "replied" /\ ret[p].err # Nil =>
                    /\ cmd[p].sent = << FetchErrorText(cmd[p].battleTag) >>
                    /\ \A i \in DOMAIN cmd[p].sent[1] :
                            cmd[p].sent[1][i] \notin GetStatsErrors)
    /\ [][\A p \in Procs :
            /\ cmd[p].at = "replied" => cmd'[p] = cmd[p]
            /\ cmd[p].at = "fetch" /\ pc[p] = "done" /\ ret[p].err # Nil =>
                    ENABLED Reply(p)]_vars

\* Commands for a tag the upstream failed to decode and for a tag that makes
\* no valid URL have each sent their one message.
C20_Witness ==
    \E p, q \in Procs :
        /\ cmd[p].at = "replied"
        /\ ret[p].err = "decode"
        /\ Len(cmd[p].sent) = 1
        /\ cmd[q].at = "replied"
        /\ ret[q].err = "url"
        /\ cmd[q].sent = << FetchErrorText(<< "%" >>) >>

\* ------------------------------------------------------- regional results

MaxGames == 2

\* The regions of a response that maps region names to stats objects.
Regions == { "eu", "us", "kr" }

\* A region's entry: missing, present without competitive stats, or stats
\* with a games-played counter.
NoCandidate == [null |-> TRUE]
EmptyCandidate == [competitive |-> FALSE]
Candidates ==
    { NoCandidate, EmptyCandidate } \cup { [games |-> g] : g \in 0..MaxGames }

RegionResponses == [Regions -> Candidates]

NonEmpty(c) == { r \in Regions : c[r] \notin { NoCandidate, EmptyCandidate } }

\* Any non-empty region, whatever its counter.
AnyNonEmpty(c) == NonEmpty(c)

\* The non-empty candidates with the highest games-played counter.
MostPlayed(c) ==
    { r \in NonEmpty(c) : \A s \in NonEmpty(c) : c[s].games <= c[r].games }

\* GetStats after a 2xx response that holds regional candidates: the most
\* played candidate is selected, labelled with its region, stored and
\* returned; without a non-empty candidate GetStats returns an error.
RespondRegions(p, c) ==
    /\ pc[p] = "inflight"
    /\ IF req[p].Cancel /\ ctx[p] # "live"
       THEN /\ Return(p, NoStats, "canceled")
            /\ UNCHANGED << cache, trace, lastStore, probe >>
       ELSE /\ probe' = [resp |-> c, out |-> MostPlayed(c)]
            /\ IF NonEmpty(c) = { }
               THEN /\ Return(p, NoStats, "nostats")
                    /\ UNCHANGED << cache, trace, lastStore >>
               ELSE \E r \in MostPlayed(c) :
                      LET userStats == [tag |-> battleTag[p], asOf |-> now,
                                        partial |-> FALSE, region |-> r,
                                        games |-> c[r].games] IN
                      /\ cache' \in CacheAdd(cache, battleTag[p],
                                      [stats |-> userStats, addedAt |-> now])
                      /\ lastStore' = [lastStore EXCEPT ![battleTag[p]] = now]
                      /\ trace' = [trace EXCEPT ![p] = "stored"]
                      /\ Return(p, userStats, Nil)
    /\ req' = [req EXCEPT ![p] = NoReq]
    /\ UNCHANGED << now, nextCh, battleTag, ctx, deferred, httpCalls >>
    /\ UNCHANGED << clock, mu, rpc, rctx, rcall, rresp, retryAfter, rret,
                    sends, gotAt >>
    /\ UNCHANGED << botVars, userVars, sc >>

RegionsStep(p) ==
    \/ \E tag \in FairTags : GetStats(p, tag)
    \/ SelectCtx(p)
    \/ SelectToken(p)
    \/ Check2(p)
    \/ Request(p)
    \/ \E c \in RegionResponses : RespondRegions(p, c)
    \/ Deferred(p)

NextRegions ==
    \/ \E p \in { "g1" } : RegionsStep(p)
    \/ \E p \in { "g1" } : Cancel(p)
    \/ Tick

SpecRegions == Init /\ [][NextRegions]_vars

\* C21: from a response with regional candidates GetStats returns and stores
\* a non-empty candidate whose games-played counter no other non-empty
\* candidate exceeds, labelled with its region; when no candidate is
\* non-empty GetStats returns an error and the cache is left as it was.
C21_MostPlayedRegion ==
    [][\A p \in Procs :
          pc[p] = "inflight" /\ ctx[p] = "live" /\ pc'[p] # "inflight" =>
            LET c == probe'.resp IN
              RespondRegions(p, c) =>
              IF \A r \in Regions : c[r] \in { NoCandidate, EmptyCandidate }
              THEN /\ ret'[p].stats = NoStats
                   /\ ret'[p].err \notin { Nil, "canceled" }
                   /\ cache' = cache
              ELSE /\ ret'[p].err = Nil
                   /\ ret'[p].stats.region \in Regions
                   /\ c[ret'[p].stats.region] = [games |-> ret'[p].stats.games]
                   /\ \A r \in Regions :
                         c[r] \in { NoCandidate, EmptyCandidate }
                             \/ c[r].games <= ret'[p].stats.games
                   /\ cache'[battleTag[p]].stats = ret'[p].stats]_vars

\* GetStats returned the candidate of one region, which has more games
\* played than the non-empty candidate of another; a third region is absent.
C21_Witness ==
    \E p \in Procs, r, s, t \in Regions :
        /\ pc[p] = "done"
        /\ trace[p] = "stored"
        /\ probe # NoResp
        /\ probe.resp[r] = [games |-> 2]
        /\ probe.resp[s] = [games |-> 1]
        /\ probe.resp[t] = NoCandidate
        /\ ret[p].stats.region = r
        /\ ret[p].stats.games = 2

\* ----------------------------------------------------------- UserSource

\* The implementations: MemoryUserSource, BoltUserSource as in user.go, and
\* BoltUserSource as in its later revision.
UserSourceImpls == { "memory", "bolt", "bolt2" }

\* Discord ids and battle tags as sequences of characters; one tag holds the
\* characters JSON escapes.
UserIds == { << "1" >>, << "2" >> }
UserTags == { << "a", "#", "1" >>, << "q", "\"", "\\" >> }

Users == [Id : UserIds, BattleTag : UserTags, CreatedBy : UserIds]

\* A nil *User, the zero User, and a key without value.
NoUser == [nil |-> TRUE]
ZeroUser == [Id |-> << >>, BattleTag |-> << >>, CreatedBy |-> << >>]
NoValue == [missing |-> TRUE]
NoGot == [none |-> TRUE]

\* A JSON string literal of encoding/json.
RECURSIVE Escape(_)
Escape(s) ==
    IF s = << >> THEN << >>
    ELSE (IF s[1] \in { "\"", "\\" } THEN << "\\", s[1] >> ELSE << s[1] >>)
            \o Escape(Tail(s))

Quote(s) == << "\"" >> \o Escape(s) \o << "\"" >>

\* json.Marshal(user): the fields under their names, in order.
Marshal(user) ==
    << "{", "\"Id\":" >> \o Quote(user.Id)
        \o << ",", "\"BattleTag\":" >> \o Quote(user.BattleTag)
        \o << ",", "\"CreatedBy\":" >> \o Quote(user.CreatedBy)
        \o << "}" >>

\* The string literal whose first character is t[i]: its value, and the
\* place after its closing quote.
RECURSIVE ReadString(_, _, _)
ReadString(t, i, acc) ==
    IF t[i] = "\"" THEN [val |-> acc, next |-> i + 1]
    ELSE IF t[i] = "\\" THEN ReadString(t, i + 2, acc \o << t[i + 1] >>)
    ELSE ReadString(t, i + 1, acc \o << t[i] >>)

\* json.Unmarshal(v, user) of an object written by Marshal.
Unmarshal(t) ==
    LET a == ReadString(t, 4, << >>)
        b == ReadString(t, a.next + 3, << >>)
        c == ReadString(t, b.next + 3, << >>)
    IN  [Id |-> a.val, BattleTag |-> b.val, CreatedBy |-> c.val]

\* NewMemoryUserSource, NewBoltUserSource on a fresh database.
NewUserSource(impl) ==
    /\ userSource.impl = "none"
    /\ userSource' = [impl |-> impl,
                      data |-> [id \in UserIds |-> NoValue],
                      last |-> [id \in UserIds |-> NoUser],
                      got |-> NoGot]
    /\ UNCHANGED outsideUsers

\* Save: the map holds a copy of the user, the bucket its JSON.
Save(user) ==
    /\ userSource.impl # "none"
    /\ userSource' =
         [userSource EXCEPT
            !.data[user.Id] = IF userSource.impl = "memory" THEN user
                              ELSE Marshal(user),
            !.last[user.Id] = user]
    /\ UNCHANGED outsideUsers

\* Get of each implementation on the value v held for the id: a copy of the
\* user in the map or nil; user := new(User), filled from the JSON if there
\* is any; var user *User, made and filled if there is JSON.
GetMemory(v) == IF v = NoValue THEN NoUser ELSE v
GetBolt(v) == IF v = NoValue THEN ZeroUser ELSE Unmarshal(v)
GetBoltLater(v) == IF v = NoValue THEN NoUser ELSE Unmarshal(v)

Get(userId) ==
    /\ userSource.impl # "none"
    /\ LET v == userSource.data[userId] IN
       userSource' =
         [userSource EXCEPT
            !.got = [id |-> userId,
                     user |-> IF userSource.impl = "memory" THEN GetMemory(v)
                              ELSE IF userSource.impl = "bolt" THEN GetBolt(v)
                              ELSE GetBoltLater(v),
                     err |-> Nil]]
    /\ UNCHANGED outsideUsers

NextUsers ==
    \/ \E impl \in UserSourceImpls : NewUserSource(impl)
    \/ \E user \in Users : Save(user)
    \/ \E id \in UserIds : Get(id)

SpecUsers == Init /\ [][NextUsers]_vars

\* C22: Get gives a nil user and a nil error for an id never saved, and the
\* user last saved under the id otherwise, in every implementation.
C22_GetWhatWasSaved ==
    [][\A id \in UserIds :
          Get(id) =>
              /\ userSource'.got.err = Nil
              /\ userSource'.got.user = userSource.last[id]]_vars

\* ----------------------------------- the mutex-gated OverwatchClient

\* What a step of the mutex-gated client leaves alone.
outsideMutexClient ==
    << nextCh, ctx, deferred, clock, rpc, rctx, rcall, rresp, retryAfter,
       rret, sends, gotAt, probe, botVars, userVars, sc >>

\* GetStats up to the call of Do, lines 169-181: the tag is made url
\* friendly, a fresh cache entry is returned, otherwise the request is built
\* and Do goes for sendMu.
MutexGetStats(p, tag) ==
    /\ pc[p] \in {"idle", "done"}
    /\ LET bt == Replace(tag)
           hit == getUserStatsFromCache(bt)
           r == NewRequest(Path(bt)) IN
       /\ hit.ok \/ httpCalls + Cardinality({q \in Procs : pc[q] = "lock"})
                        < MaxHttp
       /\ battleTag' = [battleTag EXCEPT ![p] = bt]
       /\ IF hit.ok
          THEN /\ Return(p, hit.stats, Nil)
               /\ trace' = [trace EXCEPT ![p] = "fast"]
               /\ UNCHANGED req
          ELSE IF r.err # Nil
          THEN /\ Return(p, NoStats, r.err)
               /\ trace' = [trace EXCEPT ![p] = "start"]
               /\ UNCHANGED req
          ELSE /\ pc' = [pc EXCEPT ![p] = "lock"]
               /\ ret' = [ret EXCEPT ![p] = NoRet]
               /\ req' = [req EXCEPT ![p] = r.req]
               /\ trace' = [trace EXCEPT ![p] = "start"]
    /\ UNCHANGED << now, cache, httpCalls, lastStore, mu >>
    /\ UNCHANGED outsideMutexClient

\* Do, lines 126-129: ow.sendMu.Lock() and the call of client.Do.
MutexLock(p) ==
    /\ pc[p] = "lock"
    /\ mu = "free"
    /\ mu' = p
    /\ httpCalls' = httpCalls + 1
    /\ trace' = [trace EXCEPT ![p] = "http"]
    /\ pc' = [pc EXCEPT ![p] = "inflight"]
    /\ UNCHANGED << now, cache, battleTag, req, ret, lastStore >>
    /\ UNCHANGED outsideMutexClient

\* Do returns, lines 129-166: the deferred Unlock runs; GetStats returns the
\* error of Do, lines 182-185, or goes on with the stats Do decoded.
MutexRespond(p, up) ==
    /\ pc[p] = "inflight"
    /\ mu = p
    /\ mu' = "free"
    /\ LET r == Do(p, up)
           userStats == [tag |-> battleTag[p], asOf |-> now,
                         partial |-> r.partial] IN
       IF r.err # Nil
       THEN Return(p, NoStats, r.err)
       ELSE /\ pc' = [pc EXCEPT ![p] = "store"]
            /\ ret' = [ret EXCEPT ![p] = [stats |-> userStats, err |-> Nil]]
    /\ req' = [req EXCEPT ![p] = NoReq]
    /\ UNCHANGED << now, cache, battleTag, trace, httpCalls, lastStore >>
    /\ UNCHANGED outsideMutexClient

\* Lines 187-191: the stats Do decoded are stored and returned.
MutexStore(p) ==
    /\ pc[p] = "store"
    /\ cache' \in CacheAdd(cache, battleTag[p],
                            [stats |-> ret[p].stats, addedAt |-> now])
    /\ lastStore' = [lastStore EXCEPT ![battleTag[p]] = now]
    /\ trace' = [trace EXCEPT ![p] = "stored"]
    /\ pc' = [pc EXCEPT ![p] = "done"]
    /\ UNCHANGED << now, battleTag, req, ret, httpCalls, mu >>
    /\ UNCHANGED outsideMutexClient

\* A burst of callers for one account against a succeeding upstream, the
\* clock within the TTL.
MutexBurstStep(p) ==
    \/ \E tag \in BurstTags : MutexGetStats(p, tag)
    \/ MutexLock(p)
    \/ \E up \in UpstreamOK : MutexRespond(p, up)
    \/ MutexStore(p)

NextMutexBurst ==
    \/ \E p \in Procs : MutexBurstStep(p)
    \/ TickWithinTTL

SpecMutexBurst == Init /\ [][NextMutexBurst]_vars

\* C23: in the mutex-gated client, concurrent GetStats calls for one
\* uncached battle tag against a succeeding upstream make one upstream call:
\* a call that gets sendMu after another call stored the stats finds them in
\* the cache.
C23_MutexSingleFlight ==
    /\ httpCalls <= 1
    /\ \A p \in Procs :
          pc[p] = "inflight" =>
              ~getUserStatsFromCache(battleTag[p]).ok

\* ------------------------------------------------------------ stale data

\* The goroutine's call of GetStats reaches a return statement in this step.
\* (A call that starts when the last one is done and returns at once changes
\* nothing but the goroutine's own record of the call.)
Returns(p) ==
    /\ pc'[p] \in {"return", "done"}
    /\ \/ pc[p] \in {"select", "check2", "request", "inflight"}
       \/ /\ pc[p] \in {"idle", "done"}
          /\ << ret[p], trace[p], battleTag[p], ctx[p] >>
                 # << ret'[p], trace'[p], battleTag'[p], ctx'[p] >>

\* The value is the one the call itself got from upstream in this step.
FetchedNow(p, stats) ==
    /\ pc[p] = "inflight"
    /\ stats.tag = battleTag[p]
    /\ stats.asOf = now

\* The value is read, in this step, from an entry that is at most
\* cacheDurationStats old.
ReadYoung(p, stats) ==
    /\ pc[p] \in {"idle", "done", "check2"}
    /\ cache[battleTag'[p]] # NoEntry
    /\ cache[battleTag'[p]].stats = stats
    /\ now - cache[battleTag'[p]].addedAt <= cacheDurationStats

\* C24: GetStats never returns stale data. A value it returns was fetched
\* from upstream by that same call, or read from a cache entry that was at
\* most cacheDurationStats old when the cache was checked. A call that fails
\* returns the error and no value, also when an expired entry of its key is
\* present, and it leaves the cache as it is: a cache entry is written only
\* by a call whose fetch of that key succeeds in that step.
C24_NeverStale ==
    [][/\ \A p \in Callers :
             Returns(p) =>
                 /\ ret'[p].err = Nil =>
                       \/ FetchedNow(p, ret'[p].stats)
                       \/ ReadYoung(p, ret'[p].stats)
                 /\ ret'[p].err # Nil =>
                       /\ ret'[p].stats = NoStats
                       /\ cache' = cache
       /\ \A k \in Keys :
             (cache'[k] # cache[k] /\ cache'[k] # NoEntry) =>
                 \E p \in Callers :
                     /\ Returns(p)
                     /\ battleTag[p] = k
                     /\ ret'[p].err = Nil
                     /\ FetchedNow(p, ret'[p].stats)
                     /\ cache'[k].stats = ret'[p].stats
                     /\ cache'[k].addedAt = now]_vars

\* A call found an expired entry of its key, its refresh failed, and it
\* returned the error while the expired entry is still in the cache.
C24_Witness ==
    \E p \in Callers :
        /\ pc[p] = "done"
        /\ trace[p] = "http"
        /\ ret[p] # NoRet
        /\ ret[p].err # Nil
        /\ ret[p].stats = NoStats
        /\ cache[battleTag[p]] # NoEntry
        /\ now - cache[battleTag[p]].addedAt > cacheDurationStats

\* ------------------------------------------------- a burst that fails

\* Every goroutine calls GetStats once, all for the same account; no context
\* is cancelled and every upstream call fails: in the transport, with a
\* status outside 200..299, or with a body that is not JSON.
FailingStep(p) ==
    \/ pc[p] = "idle" /\ \E tag \in BurstTags : GetStats(p, tag)
    \/ SelectToken(p)
    \/ Check2(p)
    \/ Request(p)
    \/ \E up \in Upstream \ UpstreamOK : Respond(p, up)
    \/ Deferred(p)

NextFailing ==
    \/ \E p \in Procs : FailingStep(p)
    \/ Tick

SpecFailing == Init /\ [][NextFailing]_vars

\* The calls that have made their upstream call.
Called == {p \in Procs : trace[p] = "http"}

\* C25: failures are neither cached nor shared. While the upstream fails,
\* every call of a burst for one key makes its own upstream call, one at a
\* time, K calls for K callers, and returns an error; a result reaches a
\* caller only in the step that ends its own upstream call, and nothing is
\* stored.
C25_FailuresNotShared ==
    /\ [](/\ httpCalls = Cardinality(Called)
          /\ Cardinality({p \in Procs : pc[p] = "inflight"}) <= 1
          /\ \A k \in Keys : cache[k] = NoEntry
          /\ \A p \in Returned :
                p \in Called /\ ret[p].err # Nil /\ ret[p].stats = NoStats
          /\ Returned = Procs => httpCalls = Cardinality(Procs))
    /\ [][\A p \in Procs :
             (ret'[p] # ret[p] /\ ret'[p] # NoRet) =>
                 /\ pc[p] = "inflight"
                 /\ \E up \in Upstream \ UpstreamOK :
                       ret'[p].err = Do(p, up).err
                 /\ \A q \in Procs \ {p} :
                       ret'[q] = ret[q] /\ pc[q] # "inflight"]_vars

\* All three calls have returned, with errors of different kinds.
C25_Witness ==
    /\ Returned = Procs
    /\ httpCalls = Cardinality(Procs)
    /\ \E p, q \in Procs : ret[p].err # ret[q].err

\* ------------------------------------------------------- the send mutex

\* The goroutines between rc.mu.Lock() and the return of Do.
InDo == {c \in RestCallers : rpc[c] \in {"loop", "send", "sleep"}}

\* C26: RestClient.Do holds rc.mu from before its first send until it
\* returns, the 429 backoff waits included: at most one request is in flight,
\* nobody sends while another call waits out a 429, and a request is sent
\* only by the holder of the mutex.
C26_MutexHeldThroughBackoff ==
    /\ [](/\ \A c \in RestCallers : c \in InDo <=> mu = c
          /\ Cardinality(InDo) <= 1
          /\ \A c, d \in RestCallers :
                (rpc[c] = "sleep" /\ d # c) => rpc[d] \in {"idle", "lock", "done"})
    /\ [][\A c \in RestCallers :
             sends'[c] # sends[c] =>
                 /\ mu = c /\ mu' = c
                 /\ \A d \in RestCallers \ {c} : rpc[d] # "send"]_vars

\* One call waits out a 429 while the other is blocked on rc.mu.
C26_Witness ==
    \E c, d \in RestCallers :
        /\ rpc[c] = "sleep"
        /\ sends[c] >= 1
        /\ rpc[d] = "lock"
        /\ mu = c

\* ------------------------------------------- WebSocketClient: connections

\* A panic ends the program: every step below is one of a program that has
\* not panicked.

\* f[1] + ... + f[n]
RECURSIVE Total(_, _)
Total(f, n) == IF n = 0 THEN 0 ELSE f[n] + Total(f, n - 1)

\* connect after a successful Dial, lines 84-96: the connection and its two
\* channels are stored, and listen and heartbeat are started.
connect(s, by) ==
    LET c == s.dialled + 1 IN
    [s EXCEPT !.conn = c, !.close = c, !.ready = c, !.dialled = c,
              !.socket[c] = "open",
              !.waitGroup = @ + 2,
              !.listen[c] = "select",
              !.heartbeat[c] = "await",
              !.madeBy[c] = by]

\* disconnect up to the wait, lines 104-118, on a client with a connection.
disconnect(s) ==
    [s EXCEPT !.closeCh[s.close] = TRUE,
              !.close = 0,
              !.socket[s.conn] = "closed",
              !.conn = 0]

\* Connect without the check of line 79.
ConnectUnchecked(ok) ==
    /\ ~sc.panicked
    /\ sc.api = "idle"
    /\ sc.mu = "free"
    /\ IF ~ok
       THEN sc' = [sc EXCEPT !.returned = [call |-> "Connect", err |-> "Dial"]]
       ELSE /\ sc.dialled < MaxConns
            /\ sc' = [connect(sc, "api") EXCEPT
                         !.returned = [call |-> "Connect", err |-> "nil"]]
    /\ UNCHANGED outsideWs

\* Connect, lines 70-97: under sc.mu, and Dial succeeds or fails. With a
\* connection, and when Dial fails, an error is returned and nothing changes.
Connect(ok) ==
    /\ ~sc.panicked
    /\ sc.api = "idle"
    /\ sc.mu = "free"
    /\ IF sc.conn # 0
       THEN sc' = [sc EXCEPT !.returned =
                       [call |-> "Connect", err |-> "Already connected"]]
       ELSE IF ~ok
       THEN sc' = [sc EXCEPT !.returned = [call |-> "Connect", err |-> "Dial"]]
       ELSE /\ sc.dialled < MaxConns
            /\ sc' = [connect(sc, "api") EXCEPT
                         !.returned = [call |-> "Connect", err |-> "nil"]]
    /\ UNCHANGED outsideWs

\* Disconnect up to the wait, lines 101-118: sc.mu is taken and kept.
\* Without a connection an error is returned and nothing changes.
Disconnect ==
    /\ ~sc.panicked
    /\ sc.api = "idle"
    /\ sc.mu = "free"
    /\ IF sc.conn = 0
       THEN sc' = [sc EXCEPT !.returned =
                       [call |-> "Disconnect", err |-> "Not connected"]]
       ELSE sc' = [disconnect(sc) EXCEPT !.mu = "api", !.api = "wait"]
    /\ UNCHANGED outsideWs

\* sc.waitGroup.Wait() returns, lines 120-121, and Disconnect returns and
\* gives up sc.mu. The connection it closed is the last one dialled: nothing
\* is dialled while it holds sc.mu.
DisconnectReturns ==
    /\ ~sc.panicked
    /\ sc.api = "wait"
    /\ sc.waitGroup = 0
    /\ sc' = [sc EXCEPT !.mu = "free", !.api = "idle",
                        !.returned = [call |-> "Disconnect", err |-> "Close"],
                        !.disconnected = @ \cup {sc.dialled}]
    /\ UNCHANGED outsideWs

\* listen, lines 143-151: the deferred Done, and the select at the head of
\* the loop.
ListenSelect(c) ==
    /\ ~sc.panicked
    /\ sc.listen[c] = "select"
    /\ IF sc.closeCh[c]
       THEN sc' = [sc EXCEPT !.listen[c] = "exited", !.waitGroup = @ - 1]
       ELSE sc' = [sc EXCEPT !.listen[c] = "read"]
    /\ UNCHANGED outsideWs

\* listen, lines 155-170: conn.NextReader and the decoding yield an error of
\* the socket, a READY dispatch, or something else. A read error starts
\* reconnect and ends listen; a payload is handed to a new handlePayload
\* goroutine.
ListenRead(c, msg) ==
    /\ ~sc.panicked
    /\ sc.listen[c] = "read"
    /\ sc.socket[c] # "open" => msg = "error"
    /\ msg = "READY" => Total(sc.received, MaxConns) < MaxReady
    /\ sc' = CASE msg = "error" ->
                    [sc EXCEPT !.socket[c] =
                                   IF @ = "open" THEN "failed" ELSE @,
                               !.reconnect[c] = "lock",
                               !.listen[c] = "exited",
                               !.waitGroup = @ - 1]
               [] msg = "READY" ->
                    [sc EXCEPT !.received[c] = @ + 1,
                               !.handlers[c] = @ + 1,
                               !.listen[c] = "select"]
               [] OTHER -> [sc EXCEPT !.listen[c] = "select"]
    /\ UNCHANGED outsideWs

\* heartbeat, lines 174-181: the deferred Done, and the select on the ready
\* and the close channel it was started with.
HeartbeatAwait(c) ==
    /\ ~sc.panicked
    /\ sc.heartbeat[c] = "await"
    /\ \/ /\ sc.readyCh[c]
          /\ sc' = [sc EXCEPT !.heartbeat[c] = "loop"]
       \/ /\ sc.closeCh[c]
          /\ sc' = [sc EXCEPT !.heartbeat[c] = "exited", !.waitGroup = @ - 1]
    /\ UNCHANGED outsideWs

\* heartbeat, lines 183-193: sc.mu.RLock() for the ticker (the first time)
\* and for seqNum, and go sc.sendPayload(payload). Nothing blocks between an
\* RLock and its RUnlock, so a read section is one step, taken while no
\* goroutine holds the write lock.
HeartbeatBeat(c) ==
    /\ ~sc.panicked
    /\ sc.heartbeat[c] = "loop"
    /\ sc.mu = "free"
    /\ Total(sc.senders, MaxConns) < MaxBeats
    /\ sc' = [sc EXCEPT !.heartbeat[c] = "wait", !.senders[c] = @ + 1,
                        !.beat = sc.seqNum]
    /\ UNCHANGED outsideWs

\* heartbeat, lines 195-200: the select on close and the ticker.
HeartbeatWait(c) ==
    /\ ~sc.panicked
    /\ sc.heartbeat[c] = "wait"
    /\ \/ /\ sc.closeCh[c]
          /\ sc' = [sc EXCEPT !.heartbeat[c] = "exited", !.waitGroup = @ - 1]
       \/ sc' = [sc EXCEPT !.heartbeat[c] = "loop"]
    /\ UNCHANGED outsideWs

\* sendPayload with a heartbeat, lines 205-225, run by the goroutine the
\* heartbeat of connection c started: under sc.mu, the payload is written to
\* the connection the client has now.
sendPayload(c) ==
    /\ ~sc.panicked
    /\ sc.senders[c] > 0
    /\ sc.mu = "free"
    /\ sc' = [sc EXCEPT !.senders[c] = @ - 1]
    /\ UNCHANGED outsideWs

\* handleEventReady, lines 337-341, run by a handlePayload goroutine that
\* listen started for a READY dispatch of connection c: close(sc.ready) on
\* the channel the client has now. Closing a nil or a closed channel panics.
handleEventReady(c) ==
    /\ ~sc.panicked
    /\ sc.atReady[c] > 0
    /\ sc.mu = "free"
    /\ sc' = IF sc.ready = 0 \/ sc.readyCh[sc.ready]
             THEN [sc EXCEPT !.handlers[c] = @ - 1, !.atReady[c] = @ - 1,
                             !.panicked = TRUE]
             ELSE [sc EXCEPT !.handlers[c] = @ - 1, !.atReady[c] = @ - 1,
                             !.readyCh[sc.ready] = TRUE]
    /\ UNCHANGED outsideWs

\* The update of lines 323-327 without its condition.
storeSeqNumberAlways(s, n) ==
    [s EXCEPT !.seqNum = {n},
              !.handled = @ \cup {n},
              !.stored = @ \cup {{n}}]

\* handlePayloadDispatch, lines 323-327, between Lock and Unlock: the
\* sequence number of the payload is stored when none is stored or the
\* stored one is lower.
storeSeqNumber(s, n) ==
    LET seqNum == IF s.seqNum = {} \/ \A m \in s.seqNum : m < n
                  THEN {n} ELSE s.seqNum IN
    [s EXCEPT !.seqNum = seqNum,
              !.handled = @ \cup {n},
              !.stored = @ \cup {seqNum}]

\* handlePayloadDispatch, lines 313-331, for a READY payload, up to the call
\* of handleEventReady. READY is the first dispatch of a session and has
\* sequence number 0 here; the other dispatches are numbered from 1.
handlePayloadReady(c) ==
    /\ ~sc.panicked
    /\ sc.handlers[c] > sc.atReady[c]
    /\ sc.mu = "free"
    /\ sc' = [storeSeqNumber(sc, 0) EXCEPT !.atReady[c] = @ + 1]
    /\ UNCHANGED outsideWs

\* reconnect going on whatever the client's connection is: disconnect
\* returns at once when there is none, and connect is tried.
reconnectUnchecked(c) ==
    /\ ~sc.panicked
    /\ sc.reconnect[c] = "lock"
    /\ sc.mu = "free"
    /\ IF sc.conn = 0
       THEN sc' = [sc EXCEPT !.mu = "rec", !.reconnect[c] = "dial",
                             !.cycles[c] = @ + 1, !.backoff = 1]
       ELSE sc' = [disconnect(sc) EXCEPT !.mu = "rec",
                                         !.reconnect[c] = "wait",
                                         !.cycles[c] = @ + 1,
                                         !.backoff = 1]
    /\ UNCHANGED outsideWs

\* reconnect(conn) up to the wait in disconnect, lines 227-239 and 104-118.
reconnect(c) ==
    /\ ~sc.panicked
    /\ sc.reconnect[c] = "lock"
    /\ sc.mu = "free"
    /\ IF sc.conn # c
       THEN sc' = [sc EXCEPT !.reconnect[c] = "done"]
       ELSE sc' = [disconnect(sc) EXCEPT !.mu = "rec",
                                         !.reconnect[c] = "wait",
                                         !.cycles[c] = @ + 1,
                                         !.backoff = 1]
    /\ UNCHANGED outsideWs

\* The doubling of line 251 without the cap.
NextBackoffUncapped(b) == 2 * b

\* reconnect, lines 251-253, in seconds: backoff is doubled, and set to 15
\* minutes when that is more. (The code counts nanoseconds in an int64; twice
\* 15 minutes is far from its end.)
NextBackoff(b) == IF 2 * b > 15 * 60 THEN 15 * 60 ELSE 2 * b

\* reconnect, lines 120-121 and 244-260: the wait group is empty, and connect
\* is tried until it succeeds: after each failure backoff is raised and
\* slept, and connect is tried again; sc.mu is given up on return.
reconnectDial(c, ok) ==
    /\ ~sc.panicked
    /\ \/ sc.reconnect[c] = "wait" /\ sc.waitGroup = 0
       \/ sc.reconnect[c] = "dial"
    /\ IF ok
       THEN /\ sc.dialled < MaxConns
            /\ sc' = [connect(sc, "rec") EXCEPT !.mu = "free",
                                                !.reconnect[c] = "done",
                                                !.backoff = 0,
                                                !.failures = 0]
       ELSE /\ sc.failures < MaxFails
            /\ sc' = [sc EXCEPT !.reconnect[c] = "dial",
                                !.backoff = NextBackoff(@),
                                !.failures = @ + 1]
    /\ UNCHANGED outsideWs

\* The calls of the client's user, and the steps of the goroutines of each
\* connection.
NextWs ==
    \/ \E ok \in BOOLEAN : Connect(ok)
    \/ Disconnect
    \/ DisconnectReturns
    \/ \E c \in Conns :
          \/ ListenSelect(c)
          \/ \E msg \in {"error", "READY", "other"} : ListenRead(c, msg)
          \/ HeartbeatAwait(c)
          \/ HeartbeatBeat(c)
          \/ HeartbeatWait(c)
          \/ sendPayload(c)
          \/ handlePayloadReady(c)
          \/ handleEventReady(c)
          \/ reconnect(c)
          \/ \E ok \in BOOLEAN : reconnectDial(c, ok)

SpecWs == Init /\ [][NextWs]_vars

\* A goroutine that can run is scheduled: the wait returns once the wait
\* group is empty, a read on a socket that is not open returns, a select with
\* a closed close channel takes that case in the end, and a goroutine that
\* goes for sc.mu gets it when it is free for good. Nothing obliges the
\* server to send, the network to fail or the user to call.
WsFairness ==
    /\ WF_vars(DisconnectReturns)
    /\ \A c \in Conns :
          /\ WF_vars(ListenSelect(c))
          /\ WF_vars(sc.socket[c] # "open" /\ ListenRead(c, "error"))
          /\ WF_vars(HeartbeatAwait(c))
          /\ WF_vars(HeartbeatBeat(c))
          /\ WF_vars(HeartbeatWait(c) /\ sc'.heartbeat[c] = "exited")
          /\ WF_vars(sendPayload(c))
          /\ WF_vars(handlePayloadReady(c))
          /\ WF_vars(handleEventReady(c))
          /\ WF_vars(reconnect(c))
          /\ WF_vars(\E ok \in BOOLEAN : reconnectDial(c, ok))

SpecWsFair == Init /\ [][NextWs]_vars /\ WsFairness

\* C27: Disconnect, and the disconnect step of reconnect, return when called
\* on a connected client: the wait for listen and heartbeat ends (unless the
\* program panics meanwhile).
C27_DisconnectReturns ==
    /\ sc.api = "wait" ~> (sc.api = "idle" \/ sc.panicked)
    /\ \A c \in Conns :
          sc.reconnect[c] = "wait" ~> (sc.reconnect[c] # "wait" \/ sc.panicked)

\* The step in which the sendPayload goroutine of a heartbeat of connection c
\* writes its payload to a connection.
WritesHeartbeat(c) ==
    /\ sc'.senders[c] < sc.senders[c]
    /\ sc.conn # 0
    /\ sc.socket[sc.conn] = "open"

\* C28: when Disconnect returns from a connected client, conn is nil, the
\* wait group is empty, and listen and heartbeat of the closed connection
\* have exited; from then on no goroutine of that connection reads from the
\* socket or sends a heartbeat.
C28_NothingLeftOfClosedConnection ==
    /\ [](\A c \in sc.disconnected :
             sc.listen[c] = "exited" /\ sc.heartbeat[c] = "exited")
    /\ [][(sc.api = "wait" /\ sc'.api = "idle") =>
              /\ sc'.conn = 0
              /\ sc'.waitGroup = 0
              /\ sc'.listen[sc.dialled] = "exited"
              /\ sc'.heartbeat[sc.dialled] = "exited"]_vars
    /\ [][\A c \in sc.disconnected : ~WritesHeartbeat(c)]_vars

\* C29: a reconnect started for connection c goes on only while c is the
\* client's connection. Each connection is reconnected at most once, never
\* after a Disconnect that closed it, and a client without a connection gets
\* one only from Connect or from the reconnect of the connection that failed
\* last.
C29_ReconnectOnlyCurrent ==
    /\ [](\A c \in Conns :
             /\ sc.cycles[c] <= 1
             /\ c \in sc.disconnected => sc.cycles[c] = 0
             /\ (sc.madeBy[c] = "rec") =>
                   (c > 1 /\ sc.cycles[c - 1] = 1
                          /\ c - 1 \notin sc.disconnected))
    /\ [][/\ \A c \in Conns :
                sc'.cycles[c] > sc.cycles[c] => sc.conn = c
          /\ (sc.conn = 0 /\ sc'.conn # 0) =>
                \/ sc.mu = "free" /\ sc'.madeBy[sc'.conn] = "api"
                \/ /\ sc.mu = "rec"
                   /\ sc'.madeBy[sc'.conn] = "rec"
                   /\ sc.cycles[sc.dialled] = 1]_vars

\* A reconnect started for a connection that Disconnect closed meanwhile has
\* given up, and the client is still without a connection.
C29_Witness ==
    \E c \in Conns :
        /\ c \in sc.disconnected
        /\ sc.reconnect[c] = "done"
        /\ sc.cycles[c] = 0
        /\ sc.conn = 0
        /\ sc.mu = "free"

\* C30: the heartbeat goroutine of a connection goes past its wait for ready,
\* and a heartbeat payload is written to a connection, only after the READY
\* event of that same connection has been received; a connection closed
\* before its READY never sees a heartbeat.
C30_NoHeartbeatBeforeReady ==
    /\ [](\A c \in Conns :
             sc.heartbeat[c] \in {"loop", "wait"} => sc.received[c] > 0)
    /\ [][\A c \in Conns :
             WritesHeartbeat(c) => sc.received[sc.conn] > 0]_vars

\* C31: handling a READY event never closes a ready channel that is nil or
\* already closed: whenever a handler reaches close(sc.ready), the client
\* has a ready channel and that channel is still open, so that no channel
\* is closed twice and the program does not panic.
C31_ReadyClosedOnce ==
    /\ []~sc.panicked
    /\ [][\A c \in Conns :
             sc'.handlers[c] < sc.handlers[c] =>
                 sc.ready # 0 /\ ~sc.readyCh[sc.ready]]_vars

\* ------------------------------------------- WebSocketClient: dispatches

\* The dispatches the server sends besides READY: each sequence number once,
\* with an event the client has no handler for or with MESSAGE_CREATE, whose
\* data is a message of a bot, a message of a user, a message without
\* author, or data that does not unmarshal.
Dispatches ==
    [seq : 1..MaxSeq, event : {"GUILD_CREATE"}, data : {"none"}] \cup
    [seq : 1..MaxSeq, event : {"MESSAGE_CREATE"},
     data : {"bot", "user", "noauthor", "garbage"}]

\* AddMessageHandler, lines 371-375.
AddMessageHandler ==
    /\ ~sc.panicked
    /\ sc.msgHandlers < MaxHandlers
    /\ sc' = [sc EXCEPT !.msgHandlers = @ + 1]
    /\ UNCHANGED outsideWs

\* listen, lines 155-169, reading a dispatch: go sc.handlePayload(payload).
ListenDispatch(c, d) ==
    /\ ~sc.panicked
    /\ sc.listen[c] = "read"
    /\ sc.socket[c] = "open"
    /\ d.seq \notin sc.handled \cup {g.payload.seq : g \in sc.dispatches}
    /\ sc' = [sc EXCEPT !.listen[c] = "select",
                        !.dispatches = @ \cup {[payload |-> d, at |-> "seq"]}]
    /\ UNCHANGED outsideWs

\* handlePayloadDispatch, lines 313-335, for another dispatch than READY:
\* the sequence number is stored under sc.mu, and a MESSAGE_CREATE goes on to
\* its handler; there is none for other events.
handlePayloadDispatch(g) ==
    /\ ~sc.panicked
    /\ g \in sc.dispatches
    /\ g.at = "seq"
    /\ sc.mu = "free"
    /\ sc' = [storeSeqNumber(sc, g.payload.seq) EXCEPT
                !.dispatches =
                    (@ \ {g}) \cup
                    IF g.payload.event = "MESSAGE_CREATE"
                    THEN {[g EXCEPT !.at = "event"]} ELSE {}]
    /\ UNCHANGED outsideWs

\* onMessage starting the handlers for every message.
handleEventMessageCreateForAll(g) ==
    /\ ~sc.panicked
    /\ g \in sc.dispatches
    /\ g.at = "event"
    /\ sc' = CASE g.payload.data = "garbage" ->
                    [sc EXCEPT !.dispatches = @ \ {g}]
               [] g.payload.data = "noauthor" ->
                    [sc EXCEPT !.dispatches = @ \ {g}, !.panicked = TRUE]
               [] OTHER ->
                    [sc EXCEPT !.dispatches = @ \ {g},
                               !.invoked =
                                   [h \in 1..MaxHandlers |->
                                       IF h <= sc.msgHandlers
                                       THEN Append(@[h], g.payload.seq)
                                       ELSE @[h]]]
    /\ UNCHANGED outsideWs

\* handleEventMessageCreate, lines 350-359, and onMessage, lines 385-399: data
\* that does not unmarshal is dropped; msg.Author.Bot is read, which panics
\* when Author is nil; a message of a bot is dropped; for any other message
\* go handler(msg) is run for each registered handler.
handleEventMessageCreate(g) ==
    /\ ~sc.panicked
    /\ g \in sc.dispatches
    /\ g.at = "event"
    /\ sc' = CASE g.payload.data = "garbage" ->
                    [sc EXCEPT !.dispatches = @ \ {g}]
               [] g.payload.data = "noauthor" ->
                    [sc EXCEPT !.dispatches = @ \ {g}, !.panicked = TRUE]
               [] g.payload.data = "bot" ->
                    [sc EXCEPT !.dispatches = @ \ {g}]
               [] OTHER ->
                    [sc EXCEPT !.dispatches = @ \ {g},
                               !.invoked =
                                   [h \in 1..MaxHandlers |->
                                       IF h <= sc.msgHandlers
                                       THEN Append(@[h], g.payload.seq)
                                       ELSE @[h]]]
    /\ UNCHANGED outsideWs

\* One connection that stays: the user connects once and registers
\* handlers, the server sends READY once and dispatches, and the heartbeat
\* runs.
NextEvents ==
    \/ sc.conn = 0 /\ Connect(TRUE)
    \/ AddMessageHandler
    \/ \E c \in Conns :
          \/ ListenSelect(c)
          \/ sc.received[c] = 0 /\ ListenRead(c, "READY")
          \/ \E d \in Dispatches : ListenDispatch(c, d)
          \/ handlePayloadReady(c)
          \/ handleEventReady(c)
          \/ HeartbeatAwait(c)
          \/ HeartbeatBeat(c)
          \/ HeartbeatWait(c)
          \/ sendPayload(c)
    \/ \E g \in sc.dispatches :
          handlePayloadDispatch(g) \/ handleEventMessageCreate(g)

SpecEvents == Init /\ [][NextEvents]_vars

\* C32: the stored sequence number never decreases: dispatches are handled
\* in goroutines of their own, in any order, and still seqNum is at all times
\* the highest sequence number that went through the update (nil when none
\* did), no step replaces it by nil or by a lower number, and the number in
\* a heartbeat payload is a value seqNum has had.
C32_SeqNumIsMaxHandled ==
    /\ [](sc.seqNum = {n \in sc.handled : \A m \in sc.handled : m <= n})
    /\ [](sc.beat \in sc.stored)
    /\ [][/\ sc.seqNum # {} => sc'.seqNum # {}
          /\ \A m \in sc.seqNum : \A n \in sc'.seqNum : m <= n]_vars

\* READY's sequence number went through the update after a higher one and
\* was not stored, and a heartbeat was built with the highest number.
C32_Witness ==
    /\ 0 \in sc.handled
    /\ {0} \notin sc.stored
    /\ sc.seqNum = {MaxSeq}
    /\ sc.beat = {MaxSeq}

\* C33: Connect on a client with a connection returns "Already connected"
\* and Disconnect on a client without one returns "Not connected", and
\* neither changes anything else of the client; these errors are returned in
\* no other case; so at any time at most one socket is open, at most one
\* listen and at most one heartbeat goroutine is running, and they are those
\* of the client's connection or of the one being disconnected.
C33_OneConnection ==
    /\ [](/\ Cardinality({c \in Conns : sc.socket[c] = "open"}) <= 1
          /\ Cardinality({c \in Conns :
                             sc.listen[c] \in {"select", "read"}}) <= 1
          /\ Cardinality({c \in Conns :
                             sc.heartbeat[c] \in
                                 {"await", "loop", "wait"}}) <= 1
          /\ \A c \in Conns :
                \/ sc.listen[c] \in {"select", "read"}
                \/ sc.heartbeat[c] \in {"await", "loop", "wait"}
                \/ sc.socket[c] = "open"
                => IF sc.conn # 0 THEN c = sc.conn ELSE c = sc.dialled)
    /\ [][sc'.returned # sc.returned =>
            /\ sc'.returned.call = "Connect" =>
                  IF sc.conn # 0
                  THEN sc' = [sc EXCEPT !.returned =
                                 [call |-> "Connect",
                                  err |-> "Already connected"]]
                  ELSE sc'.returned.err # "Already connected"
            /\ sc'.returned.call = "Disconnect" =>
                  IF sc.conn = 0 /\ sc.api = "idle"
                  THEN sc' = [sc EXCEPT !.returned =
                                 [call |-> "Disconnect",
                                  err |-> "Not connected"]]
                  ELSE sc'.returned.err # "Not connected"]_vars

\* After a Disconnect that returned, Connect was called on the client with
\* its second connection, whose goroutines are running, and returned the
\* error.
C33_Witness ==
    /\ sc.returned = [call |-> "Connect", err |-> "Already connected"]
    /\ sc.disconnected # {}
    /\ sc.conn = MaxConns
    /\ sc.listen[sc.conn] = "read"
    /\ sc.heartbeat[sc.conn] = "loop"

RECURSIVE Pow2(_)
Pow2(n) == IF n = 0 THEN 1 ELSE 2 * Pow2(n - 1)

\* C34: in a reconnect, the wait after the n-th failed connect in a row is
\* 2^n seconds, 15 minutes when that is more: 2 seconds after the first
\* failure, twice the wait before after each further one, never more than
\* 15 minutes; and a reconnect that went on to connect ends only with a
\* connect that succeeded, which leaves the client with a new open
\* connection.
C34_BackoffDoublesToCap ==
    /\ [](\A c \in Conns :
             sc.reconnect[c] = "dial" =>
                /\ sc.failures >= 1
                /\ sc.backoff =
                      IF Pow2(sc.failures) < 15 * 60
                      THEN Pow2(sc.failures) ELSE 15 * 60)
    /\ [](sc.backoff <= 15 * 60)
    /\ [][\A c \in Conns :
             /\ sc.reconnect[c] = "dial" /\ sc'.failures = sc.failures + 1
                => sc'.backoff \in {2 * sc.backoff, 15 * 60}
             /\ sc.reconnect[c] \in {"wait", "dial"}
                /\ sc'.reconnect[c] \notin {"wait", "dial"}
                => /\ sc'.conn \notin {0, c}
                   /\ sc'.socket[sc'.conn] = "open"
                   /\ sc'.madeBy[sc'.conn] = "rec"]_vars

\* The wait has reached 15 minutes and stays there for a further failure.
C34_Witness ==
    /\ \E c \in Conns : sc.reconnect[c] = "dial"
    /\ sc.failures = MaxFails
    /\ sc.backoff = 15 * 60

\* C35: a MESSAGE_CREATE whose author is a bot starts no message handler, and
\* one whose author is not a bot starts each handler registered at that time
\* once, and no other; so no handler is ever started twice for one message,
\* and never for the message of a bot.
C35_HandlersOncePerUserMessage ==
    /\ [](\A h \in 1..MaxHandlers :
             \A i, j \in 1..Len(sc.invoked[h]) :
                sc.invoked[h][i] = sc.invoked[h][j] => i = j)
    /\ [][\A g \in sc.dispatches :
             g.at = "event" /\ g \notin sc'.dispatches =>
                /\ g.payload.data = "bot" => sc'.invoked = sc.invoked
                /\ g.payload.data = "user" =>
                      \A h \in 1..MaxHandlers :
                         sc'.invoked[h] =
                            IF h <= sc.msgHandlers
                            THEN Append(sc.invoked[h], g.payload.seq)
                            ELSE sc.invoked[h]]_vars

\* Two handlers are registered and both dispatches are handled: the first,
\* the message of a user, has started both handlers, and the second, which
\* is not one, none.
C35_Witness ==
    /\ sc.msgHandlers = 2
    /\ sc.handled = {1, 2}
    /\ sc.dispatches = {}
    /\ sc.invoked[1] = << 1 >>
    /\ sc.invoked[2] = << 1 >>

====
